---------------------------- MODULE Spec2Model ----------------------------
(***************************************************************************)
(* Region-file chunk storage of Pumpkin: the ChunkFileManager cache        *)
(* (pumpkin-world/src/chunk/io/chunk_file_manager.rs) over the Anvil       *)
(* serializer (pumpkin-world/src/chunk/format/anvil.rs).                   *)
(*                                                                         *)
(* The concurrent part is a state machine whose processes are the calls    *)
(* of fetch_chunks / save_chunks and, per call, one region task per region *)
(* key.  A step is the code between two await points (or two atomic        *)
(* operations on shared objects).  The region folder maps file names to    *)
(* files; an open descriptor keeps designating the file it opened when the *)
(* file is renamed or truncated through another descriptor.                *)
(***************************************************************************)
EXTENDS Integers, Sequences, FiniteSets, Bags, TLC

(***************************************************************************)
(* Bounds of the model.                                                    *)
(***************************************************************************)
\* number of fetch_chunks / save_chunks calls of one behaviour
MaxCalls == 3
\* distinct chunk contents a caller may save (sub-chunk payloads 1..MaxVer)
MaxVer == 2
\* capacity of the bounded result channel handed to fetch_chunks
ChannelCap == 1
\* file-system operations that may fail with an I/O error in one behaviour
MaxFaults == 1
\* calls in flight at the same time when calls overlap
MaxOverlap == 2
\* calls of one behaviour in which the caller also closes the cache or
\* drops receivers
MaxEnvCalls == 2

(***************************************************************************)
(* Program constants.                                                      *)
(***************************************************************************)
REGION_SIZE == 32
SUBREGION_BITS == 5
CHUNK_COUNT == REGION_SIZE * REGION_SIZE
SECTOR_BYTES == 4096
\* Compression::ZLib as u8, the tag of the configured algorithm
ZLib == 2
\* Compression::NO_COMPRESSION
NO_COMPRESSION == 3
\* the tags Compression::from_byte accepts
KnownCompression == {1, 2, 3, 4, 127}
\* a tag Compression::from_byte rejects
UnknownTag == 9
\* payloads that are not the compressed NBT of a chunk: bytes the decoder
\* of the tag rejects, and bytes that decompress to malformed NBT
NotDeflate == -1
NotNbt == -2

(***************************************************************************)
(* Integer helpers: the bit operations of the code on naturals.            *)
(***************************************************************************)
RECURSIVE Pow2(_)
Pow2(n) == IF n = 0 THEN 1 ELSE 2 * Pow2(n - 1)

\* a >> n on a signed integer (arithmetic shift) is the floor division
Shr(a, n) == a \div Pow2(n)

\* a & (2^n - 1) on a two's-complement integer
LowBits(a, n) == a % Pow2(n)

RECURSIVE BitOr(_, _)
BitOr(a, b) ==
    IF a = 0 THEN b
    ELSE IF b = 0 THEN a
    ELSE (IF (a % 2 = 1) \/ (b % 2 = 1) THEN 1 ELSE 0)
         + 2 * BitOr(a \div 2, b \div 2)

(***************************************************************************)
(* Coordinates, region keys and intra-region indices.                      *)
(***************************************************************************)
\* the chunk coordinates callers use: two chunks of region (0,0) and one
\* chunk, with a negative coordinate, of region (-1,0)
Coords == { <<0, 0>>, <<1, 0>>, <<-1, 0>> }

get_region_coords(at) == << Shr(at[1], SUBREGION_BITS), Shr(at[2], SUBREGION_BITS) >>

\* the index without the x part of the position
get_chunk_index_without_x(pos) ==
    LET local_z == LowBits(pos[2], 5)
    IN  local_z * Pow2(5)

get_chunk_index(pos) ==
    LET local_x == LowBits(pos[1], 5)
        local_z == LowBits(pos[2], 5)
    IN  (local_z * Pow2(5)) + local_x

\* "./r.{x}.{z}.mca": the file name is determined by the region coordinates
get_chunk_key(at) ==
    LET r == get_region_coords(at) IN << "r", r[1], r[2], "mca" >>

Paths == { get_chunk_key(at) : at \in Coords }

\* path.with_extension("tmp")
TmpOf(path) == << path[1], path[2], path[3], "tmp" >>

Names == Paths \cup { TmpOf(p) : p \in Paths }

(***************************************************************************)
(* Chunk records and the Anvil region image.                               *)
(*                                                                         *)
(* A ChunkData is [position, subchunks]; its NBT bytes, compressed, are    *)
(* the payload [xz, sub] of compress_len(sub) bytes.  A region in memory   *)
(* is the array chunks_data, kept as the function from the present         *)
(* indices to their AnvilChunkData (an absent index is None).              *)
(***************************************************************************)
Versions == 1 .. MaxVer

\* length of the compressed NBT of a chunk whose sub-chunks are v: contents
\* 1 fit one sector with the 5 header bytes, larger contents need more
compress_len(v) == 4000 * v

\* AnvilChunkData::from_chunk
from_chunk(chunk) ==
    [ length |-> compress_len(chunk.subchunks) + 1,
      compression |-> ZLib,
      compressed_data |-> [ xz |-> chunk.position,
                            sub |-> chunk.subchunks,
                            len |-> compress_len(chunk.subchunks) ] ]

\* AnvilChunkData::to_chunk: the first length - 1 bytes of compressed_data,
\* decompressed and parsed; the position of the result is the one asked for
to_chunk(data, pos) ==
    [ position |-> pos, subchunks |-> data.compressed_data.sub ]

\* the outcome of AnvilChunkData::to_chunk: decompress_data(..).expect(..)
\* panics, ChunkData::from_bytes may return a ParsingError
to_chunk_result(data) ==
    IF data.compressed_data.sub = NotDeflate THEN "panic"
    ELSE IF data.compressed_data.sub = NotNbt THEN "parse_err"
    ELSE "ok"

\* AnvilChunkData::to_bytes: the sectors of one chunk; the first sector
\* carries the 4-byte length, the tag and the start of the data
SectorCount(data) ==
    ((data.compressed_data.len + 4 + 1) + (SECTOR_BYTES - 1)) \div SECTOR_BYTES

chunk_to_sectors(data) ==
    [ k \in 1 .. SectorCount(data) |->
        [ length |-> data.length,
          tag |-> data.compression,
          xz |-> data.compressed_data.xz,
          sub |-> data.compressed_data.sub,
          part |-> k ] ]

\* AnvilChunkData::from_bytes on the sectors of one location entry: the
\* compressed data are all the bytes after the 5 header bytes, padding
\* included
chunk_from_sectors(secs) ==
    [ length |-> secs[1].length,
      compression |-> secs[1].tag,
      compressed_data |-> [ xz |-> secs[1].xz,
                            sub |-> secs[1].sub,
                            len |-> (Len(secs) * SECTOR_BYTES) - 5 ] ]

\* AnvilChunkFile::default
DefaultRegion == << >>

\* the present indices of a region, in increasing order
RECURSIVE SortedSeq(_)
SortedSeq(S) ==
    IF S = {} THEN << >>
    ELSE LET m == CHOOSE x \in S : \A y \in S : x <= y
         IN  << m >> \o SortedSeq(S \ {m})

\* AnvilChunkFile::to_bytes: one cursor, starting at sector 2, walks the
\* indices in order; the image is the location table (absent entries are 0
\* and left out) and the payload sectors
RECURSIVE to_bytes_from(_, _, _, _)
to_bytes_from(region, order, current_sector, acc) ==
    IF order = << >> THEN acc
    ELSE LET i == Head(order)
             chunk_bytes == chunk_to_sectors(region[i])
             sector_count == Len(chunk_bytes)
             location == BitOr(current_sector * Pow2(8), sector_count)
         IN  to_bytes_from(region, Tail(order), current_sector + sector_count,
                 [ location |-> acc.location @@ (i :> location),
                   sectors |-> acc.sectors \o chunk_bytes ])

\* an encoder whose cursor starts at the first sector of the file
to_bytes_from_sector_zero(region) ==
    to_bytes_from(region, SortedSeq(DOMAIN region), 0,
                  [ location |-> << >>, sectors |-> << >> ])

to_bytes(region) ==
    to_bytes_from(region, SortedSeq(DOMAIN region), 2,
                  [ location |-> << >>, sectors |-> << >> ])

\* AnvilChunkFile::from_bytes: for every non-zero location entry the
\* sectors [offset - 2, offset - 2 + count) of the payload
from_bytes(image) ==
    [ i \in DOMAIN image.location |->
        LET location == image.location[i]
            sector_count == location % Pow2(8)
            sector_offset == location \div Pow2(8)
        IN  chunk_from_sectors(
                SubSeq(image.sectors, (sector_offset - 2) + 1,
                       (sector_offset - 2) + sector_count)) ]

\* AnvilChunkFile::add_chunk_data: overwrite by index, in list order
RECURSIVE add_chunk_data(_, _)
\* an add_chunk_data that keeps, of the chunks of one index, the first
add_chunk_data_keeping_first(region, chunks_data) ==
    LET index(k) == get_chunk_index(chunks_data[k].position)
        first(i) == CHOOSE k \in DOMAIN chunks_data :
                        /\ index(k) = i
                        /\ \A j \in DOMAIN chunks_data : index(j) = i => k <= j
        supplied == { index(k) : k \in DOMAIN chunks_data }
    IN  [ i \in (DOMAIN region) \cup supplied |->
            IF i \in supplied THEN from_chunk(chunks_data[first(i)]) ELSE region[i] ]

add_chunk_data(region, chunks_data) ==
    IF chunks_data = << >> THEN region
    ELSE LET chunk == Head(chunks_data)
             index == get_chunk_index(chunk.position)
         IN  add_chunk_data(
                 [ j \in (DOMAIN region) \cup {index} |->
                     IF j = index THEN from_chunk(chunk) ELSE region[j] ],
                 Tail(chunks_data))

(***************************************************************************)
(* The processes.                                                          *)
(***************************************************************************)
Calls == 1 .. MaxCalls

\* the region task of a call for one region key (one future of join_all)
Tasks == Calls \X Paths

NoTask == << 0, << "r", 0, 0, "mca" >> >>

VARIABLES
    file_locks,  \* the map of the cache: path -> once-cell (NoTask: no entry)
    cells,       \* the once-cells, named by the task whose insert made them
    files,       \* the region folder: file name -> state and image of the file
    call,        \* per call: kind, position, request, paths_to_remove
    task,        \* per region task: position and the handles it holds
    chan,        \* per call: messages in the result channel, not yet received
    sent,        \* per call: the bag of messages sent on the result channel
    faults,      \* I/O errors injected so far
    last_saved,  \* per coordinate: contents of the latest returned save (0: none)
    serial,      \* TRUE: a call starts only when no other call is running
    rx,          \* per call: the receiver of the result channel ("kept": the
                 \* caller never drops it; "open"; "dropped")
    closer,      \* the call of close(): position, entries to lock, guards held
    probe,       \* a function of the serializers applied on its own: its
                 \* input and its result
    lin          \* a folder of Linear region files and the call at work on it

vars == << file_locks, cells, files, call, task, chan, sent, faults,
           last_saved, serial, rx, closer, probe, lin >>

\* the variables of the cache
cache_vars == << file_locks, cells, files, call, task, chan, sent, faults,
                last_saved, serial, rx, closer >>

\* no function is being applied on its own, no Linear folder is in use
NoProbe == [ op |-> "none" ]

NoLinear == [ op |-> "none" ]

CacheOnly == probe = NoProbe /\ lin = NoLinear

\* close() is not called in the behaviour
AbsentCloser == [ pc |-> "absent", todo |-> {}, held |-> {} ]

\* the caller neither closes the cache nor drops a receiver
PlainCaller == closer = AbsentCloser /\ rx = [ c \in Calls |-> "kept" ]

\* an Arc<OnceCell<Arc<RwLock<S>>>>: the cell is initialised or not; permit
\* is the initialiser semaphore of the cell; writer and readers are the
\* holders of the RwLock guards
FreshCell == [ init |-> FALSE, value |-> DefaultRegion, permit |-> FALSE,
               writer |-> {}, readers |-> {} ]

EmptyImage == [ location |-> << >>, sectors |-> << >> ]

\* a file: st is "none" (no such file), "empty" (just truncated), "partial"
\* (part of one image), "whole" (one complete image) or "torn" (bytes of
\* several writers); by is the task that truncated it and still has it open
NoFile == [ st |-> "none", data |-> EmptyImage, by |-> NoTask ]

\* fd: the file the task has open for writing is the one now named
\* <path>.tmp ("tmp") or <path> ("real"), or has no name left ("orphan")
IdleTask == [ pc |-> "idle", once |-> NoTask, ser |-> NoTask, fd |-> "none",
              i |-> 0, batch |-> {}, worker |-> FALSE, flag |-> FALSE,
              res |-> "none", err |-> "none", applied |-> DefaultRegion ]

IdleCall == [ kind |-> "none", pc |-> "idle", req |-> << >>, remove |-> {} ]

\* a chunk as a caller builds it, and the pair handed to save_chunks
Chunk(at, v) == [ position |-> at, subchunks |-> v ]

Pair(at, v) == << at, Chunk(at, v) >>

\* the region of (0,0) holding chunk (0,0) with contents 1, as saved earlier
OldRegion == add_chunk_data(DefaultRegion, << Chunk(<< 0, 0 >>, 1) >>)

(***************************************************************************)
(* Grouping by region key (the BTreeMap of fetch_chunks and save_chunks).  *)
(***************************************************************************)
RECURSIVE SelectKey(_, _, _)
SelectKey(req, key, kind) ==
    IF req = << >> THEN << >>
    ELSE LET at == IF kind = "save" THEN Head(req)[1] ELSE Head(req)
             el == IF kind = "save" THEN Head(req)[2] ELSE Head(req)
         IN  (IF get_chunk_key(at) = key THEN << el >> ELSE << >>)
             \o SelectKey(Tail(req), key, kind)

\* regions_chunks[key] of call c: coordinates (fetch) or chunks (save)
Group(c, p) == SelectKey(call[c].req, p, call[c].kind)

\* the region tasks join_all runs for call c
TasksOf(c) == { t \in Tasks : t[1] = c /\ Group(c, t[2]) # << >> }

(***************************************************************************)
(* Reference counts and garbage: an object nobody refers to is reset.      *)
(***************************************************************************)
\* Arc::strong_count of the Arc<RwLock<S>> of cell id: the clone the cell
\* owns and the clones the region tasks hold
strong_count(id) ==
    (IF cells[id].init THEN 1 ELSE 0)
    + Cardinality({ t \in Tasks : task[t].ser = id })

DropCells(cs, fl, tk) ==
    LET CellUsed(id) ==
            \/ \E p \in Paths : fl[p] = id
            \/ \E t \in Tasks : tk[t].once = id \/ tk[t].ser = id
    IN  [ id \in Tasks |-> IF CellUsed(id) THEN cs[id] ELSE FreshCell ]

\* the name of the file task t has open for writing
FdName(t, fd) == IF fd = "tmp" THEN TmpOf(t[2]) ELSE t[2]

\* a truncater that has closed the file is forgotten
CloseFiles(fs, tk) ==
    LET HasOpen(t, f) == tk[t].fd \in { "tmp", "real" } /\ FdName(t, tk[t].fd) = f
    IN
    [ f \in Names |->
        IF fs[f].by # NoTask /\ ~HasOpen(fs[f].by, f)
        THEN [ fs[f] EXCEPT !.by = NoTask ] ELSE fs[f] ]

(***************************************************************************)
(* Initial states: an empty cache; the folder holds no file, or the region *)
(* file of (0,0) written by an earlier run.                                *)
(***************************************************************************)
\* the region file of (0,0) holding, besides chunk (0,0), a chunk (1,0)
\* that does not decode: an unknown compression tag, data that do not
\* decompress, or data that decompress to malformed NBT
CorruptRegion(k) ==
    LET good == from_chunk(Chunk(<< 1, 0 >>, 1))
    IN  OldRegion @@
        (get_chunk_index(<< 1, 0 >>) :>
            [ good EXCEPT !.compression = IF k = "tag" THEN UnknownTag ELSE ZLib,
                          !.compressed_data.sub =
                              IF k = "deflate" THEN NotDeflate
                              ELSE IF k = "nbt" THEN NotNbt ELSE 1 ])

\* the folders a behaviour starts from
PlainFolders == { DefaultRegion, OldRegion }

HostileFolders == PlainFolders \cup { CorruptRegion(k) : k \in { "tag", "deflate", "nbt" } }

InitFrom(folders) ==
    /\ file_locks = [ p \in Paths |-> NoTask ]
    /\ cells = [ id \in Tasks |-> FreshCell ]
    /\ \E region \in folders :
         files = [ f \in Names |->
                     IF region # DefaultRegion /\ f = get_chunk_key(<< 0, 0 >>)
                     THEN [ st |-> "whole", data |-> to_bytes(region), by |-> NoTask ]
                     ELSE NoFile ]
    /\ call = [ c \in Calls |-> IdleCall ]
    /\ task = [ t \in Tasks |-> IdleTask ]
    /\ chan = [ c \in Calls |-> 0 ]
    /\ sent = [ c \in Calls |-> EmptyBag ]
    /\ faults = 0
    /\ last_saved = [ at \in Coords |->
                       IF at = << 0, 0 >> /\ files[get_chunk_key(at)].st = "whole"
                       THEN 1 ELSE 0 ]

InitCommon == InitFrom(PlainFolders) /\ PlainCaller /\ CacheOnly

Init == InitCommon /\ serial = FALSE

InitSerial == InitCommon /\ serial = TRUE

\* overlapping calls and one call of close()
InitClose ==
    /\ InitFrom(PlainFolders)
    /\ serial = FALSE
    /\ rx = [ c \in Calls |-> "kept" ]
    /\ closer = [ AbsentCloser EXCEPT !.pc = "idle" ]
    /\ CacheOnly

\* one call at a time, receivers that may be dropped, chunks that may not
\* decode
InitHostile ==
    /\ InitFrom(HostileFolders)
    /\ serial = TRUE
    /\ rx = [ c \in Calls |-> "open" ]
    /\ closer = AbsentCloser
    /\ CacheOnly

(***************************************************************************)
(* Starting a call: the request is grouped, one task per region key.       *)
(***************************************************************************)
\* the calls of a behaviour start in the order of their numbers; the calls
\* that have started and not returned are counted
StartCall(c, kind, req) ==
    /\ call[c].pc = "idle"
    /\ \A d \in Calls : d < c => call[d].pc # "idle"
    /\ Cardinality({ d \in Calls : call[d].pc \in { "running", "sweep" } })
         < (IF serial THEN 1 ELSE MaxOverlap)
    /\ c <= (IF PlainCaller THEN MaxCalls ELSE MaxEnvCalls)
    /\ call' = [ call EXCEPT ![c] = [ kind |-> kind, pc |-> "running",
                                      req |-> req, remove |-> {} ] ]
    /\ task' = [ t \in Tasks |->
                   IF t[1] = c /\ SelectKey(req, t[2], kind) # << >>
                   THEN [ IdleTask EXCEPT !.pc = "lookup" ]
                   ELSE task[t] ]
    /\ UNCHANGED << file_locks, cells, files, chan, sent, faults, last_saved, serial, rx, closer, probe, lin >>

\* the requests of fetch_chunks.  One call at a time: two coordinates of
\* one region, of two regions, and one coordinate twice; overlapping
\* calls: all on region (0,0)
StartFetch(c) ==
    LET FetchInputs == { << << 0, 0 >>, << 1, 0 >> >>,
                         << << 0, 0 >>, << -1, 0 >> >>,
                         << << 0, 0 >>, << 0, 0 >> >> }
        OverlapFetchInputs == { << << 0, 0 >>, << 1, 0 >> >> }
    IN  \E req \in (IF serial THEN FetchInputs ELSE OverlapFetchInputs) :
            StartCall(c, "fetch", req)

\* the requests of save_chunks: pairs whose coordinate is the chunk's
\* position; successive overlapping calls save different contents
StartSave(c) ==
    LET SaveInputs ==
            { << Pair(<< 0, 0 >>, v) >> : v \in Versions }
            \cup { << Pair(<< 0, 0 >>, v), Pair(<< -1, 0 >>, v) >> : v \in Versions }
        OverlapSaveInputs == { << Pair(<< 0, 0 >>, ((c - 1) % MaxVer) + 1) >> }
    IN  \E req \in (IF serial THEN SaveInputs ELSE OverlapSaveInputs) :
            StartCall(c, "save", req)

(***************************************************************************)
(* read_file: the acquire path.                                            *)
(***************************************************************************)
\* the lock of the map is free unless close() holds it
map_lock_free == closer.pc # "locking"

\* file_locks.read().await.get(path): clone the once-cell when present
ReadFileLookup(t) ==
    /\ task[t].pc = "lookup"
    /\ map_lock_free
    /\ task' = [ task EXCEPT ![t] =
                   IF file_locks[t[2]] # NoTask
                   THEN [ @ EXCEPT !.once = file_locks[t[2]], !.pc = "init" ]
                   ELSE [ @ EXCEPT !.pc = "insert" ] ]
    /\ UNCHANGED << file_locks, cells, files, call, chan, sent, faults, last_saved, serial, rx, closer, probe, lin >>

\* an insertion that puts a new once-cell in the map whether or not the
\* path has one (insert in place of entry(..).or_insert(..))
ReadFileInsertOverwriting(t) ==
    /\ task[t].pc = "insert"
    /\ map_lock_free
    /\ file_locks' = [ file_locks EXCEPT ![t[2]] = t ]
    /\ task' = [ task EXCEPT ![t] = [ @ EXCEPT !.once = t, !.pc = "init" ] ]
    /\ UNCHANGED << cells, files, call, chan, sent, faults, last_saved, serial, rx, closer, probe, lin >>

\* file_locks.write().await.entry(path).or_insert(Arc::new(OnceCell::new()))
ReadFileInsert(t) ==
    /\ task[t].pc = "insert"
    /\ map_lock_free
    /\ IF file_locks[t[2]] # NoTask
       THEN /\ task' = [ task EXCEPT ![t] =
                           [ @ EXCEPT !.once = file_locks[t[2]], !.pc = "init" ] ]
            /\ UNCHANGED file_locks
       ELSE /\ file_locks' = [ file_locks EXCEPT ![t[2]] = t ]
            /\ task' = [ task EXCEPT ![t] = [ @ EXCEPT !.once = t, !.pc = "init" ] ]
    /\ UNCHANGED << cells, files, call, chan, sent, faults, last_saved, serial, rx, closer, probe, lin >>

\* once_cell.get_or_try_init(..): an initialised cell yields its region,
\* which is cloned (read_file returns, the once-cell clone is dropped);
\* otherwise the task that gets the permit runs read_from_disk
GetOrTryInit(t) ==
    /\ task[t].pc = "init"
    /\ LET id == task[t].once IN
       IF cells[id].init
       THEN /\ task' = [ task EXCEPT ![t] =
                           [ @ EXCEPT !.ser = id, !.once = NoTask, !.pc = "lock" ] ]
            /\ UNCHANGED cells
       ELSE /\ ~cells[id].permit
            /\ cells' = [ cells EXCEPT ![id].permit = TRUE ]
            /\ task' = [ task EXCEPT ![t].pc = "open" ]
    /\ UNCHANGED << file_locks, files, call, chan, sent, faults, last_saved, serial, rx, closer, probe, lin >>

\* a failed initialiser that sets the cell to the default region
LoadFailedStoringDefault(t, err) ==
    LET kind == call[t[1]].kind
        after == [ task EXCEPT ![t] =
                     [ @ EXCEPT !.once = NoTask, !.err = err, !.res = "load_err",
                                !.pc = IF kind = "fetch" THEN "send_err" ELSE "done" ] ]
    IN  /\ task' = after
        /\ cells' = DropCells([ cells EXCEPT ![task[t].once] =
                                  [ @ EXCEPT !.init = TRUE, !.value = DefaultRegion,
                                             !.permit = FALSE ] ],
                              file_locks, after)

\* the initialiser failed with the error err: the permit is released, the
\* cell stays uninitialised and read_file returns the error.  The region
\* task panics at unreachable!() on ChunkNotExist; on another error a
\* fetch sends it and a save returns it
LoadFailed(t, err) ==
    LET kind == call[t[1]].kind
        after == [ task EXCEPT ![t] =
                     [ @ EXCEPT !.once = NoTask, !.err = err,
                                !.res = IF err = "ChunkNotExist" THEN "unreachable"
                                        ELSE "load_err",
                                !.pc = IF kind = "fetch" /\ err # "ChunkNotExist"
                                       THEN "send_err" ELSE "done" ] ]
    IN  /\ task' = after
        /\ cells' = DropCells([ cells EXCEPT ![task[t].once].permit = FALSE ],
                              file_locks, after)

\* the initialiser produced a region: the cell is set, the permit released
LoadDone(t, region) ==
    /\ task' = [ task EXCEPT ![t].pc = "init" ]
    /\ cells' = [ cells EXCEPT ![task[t].once] =
                    [ @ EXCEPT !.init = TRUE, !.value = region, !.permit = FALSE ] ]

\* a panic of region task t unwinds the future of its call: the other region
\* tasks of the call are dropped with it, their guards, handles and permits
\* released; a worker already spawned keeps running
Panic(t) ==
    LET gone(u) == u[1] = t[1] /\ task[u].pc # "done"
        after == [ u \in Tasks |->
                     IF gone(u)
                     THEN [ task[u] EXCEPT !.pc = "done", !.once = NoTask,
                                           !.ser = NoTask, !.fd = "none", !.i = 0,
                                           !.flag = FALSE, !.applied = DefaultRegion,
                                           !.res = IF u = t THEN "panic" ELSE "dropped" ]
                     ELSE task[u] ]
        freed == [ id \in Tasks |->
                     [ cells[id] EXCEPT
                         !.writer = { u \in @ : ~gone(u) },
                         !.readers = { u \in @ : ~gone(u) },
                         !.permit = @ /\ ~\E u \in Tasks :
                                       gone(u) /\ task[u].pc = "open" /\ task[u].once = id ] ]
    IN  /\ task' = after
        /\ cells' = DropCells(freed, file_locks, after)
        /\ call' = [ call EXCEPT ![t[1]].pc = "panicked" ]

\* S::read: from_bytes fails on an unknown compression tag; a file that is
\* not a complete image of one region does not parse either
read_ok(file) ==
    /\ file.st = "whole"
    /\ \A k \in 1 .. Len(file.data.sectors) :
         file.data.sectors[k].tag \in KnownCompression

\* a read_from_disk that falls back to S::default() on every error of the
\* parse, as it does for a missing file
read_from_disk_or_default(t) ==
    \/ /\ files[t[2]].st = "none" \/ ~read_ok(files[t[2]])
       /\ LoadDone(t, DefaultRegion)
       /\ UNCHANGED << faults, call >>
    \/ /\ files[t[2]].st # "none"
       /\ read_ok(files[t[2]])
       /\ LoadDone(t, from_bytes(files[t[2]].data))
       /\ UNCHANGED << faults, call >>
    \/ /\ faults < MaxFaults
       /\ faults' = faults + 1
       /\ LoadFailed(t, "IoError")
       /\ UNCHANGED call

\* read_from_disk: open, read_to_end and S::read.  The NotFound of open
\* becomes ChunkNotExist and that gives S::default(); another error of
\* open or of read_to_end is returned as IoError, and the error of S::read
\* as it is (from_bytes returns no other than that of the compression
\* byte).  On a file that is cut short from_bytes panics, at split_at or
\* at the slice of a chunk; the bytes of a torn file may give either
read_from_disk(t) ==
    \/ /\ files[t[2]].st = "none"
       /\ LoadDone(t, DefaultRegion)
       /\ UNCHANGED << faults, call >>
    \/ /\ files[t[2]].st # "none"
       /\ read_ok(files[t[2]])
       /\ LoadDone(t, from_bytes(files[t[2]].data))
       /\ UNCHANGED << faults, call >>
    \/ /\ files[t[2]].st \in { "whole", "torn" }
       /\ ~read_ok(files[t[2]])
       /\ LoadFailed(t, "Compression")
       /\ UNCHANGED << faults, call >>
    \/ /\ files[t[2]].st \in { "empty", "partial", "torn" }
       /\ Panic(t)
       /\ UNCHANGED faults
    \/ /\ faults < MaxFaults
       /\ faults' = faults + 1
       /\ LoadFailed(t, "IoError")
       /\ UNCHANGED call

\* a read_from_disk without the arm for ChunkNotExist: the error of a
\* missing file is returned like any other
ReadFromDiskPassingNotFound(t) ==
    /\ task[t].pc = "open"
    /\ IF files[t[2]].st = "none"
       THEN LoadFailed(t, "ChunkNotExist") /\ UNCHANGED << faults, call >>
       ELSE read_from_disk(t)
    /\ UNCHANGED << file_locks, files, chan, sent, last_saved, serial, rx, closer, probe, lin >>

ReadFromDisk(t) ==
    /\ task[t].pc = "open"
    /\ read_from_disk(t)
    /\ UNCHANGED << file_locks, files, chan, sent, last_saved, serial, rx, closer, probe, lin >>

(***************************************************************************)
(* The end of a region task: its guards and handles are dropped.           *)
(***************************************************************************)
Release(id, t) ==
    [ cells EXCEPT ![id] = [ @ EXCEPT !.writer = @ \ {t}, !.readers = @ \ {t} ] ]

TaskEnds(t, res) ==
    LET after == [ task EXCEPT ![t] =
                     [ @ EXCEPT !.pc = "done", !.res = res, !.ser = NoTask,
                                !.fd = "none", !.i = 0, !.flag = FALSE,
                                !.applied = DefaultRegion ] ]
    IN  /\ task' = after
        /\ cells' = DropCells(Release(task[t].ser, t), file_locks, after)

(***************************************************************************)
(* fetch_chunks: the region task after read_file.                          *)
(***************************************************************************)
Msg(kind, at, v) == [ kind |-> kind, at |-> at, v |-> v ]

\* stream.send(..).await / channel.blocking_send(..): waits for room
Send(c, m) ==
    /\ rx[c] # "dropped"
    /\ chan[c] < ChannelCap
    /\ chan' = [ chan EXCEPT ![c] = @ + 1 ]
    /\ sent' = [ sent EXCEPT ![c] = @ (+) SetToBag({m}) ]

\* the consumer of the result channel receives one message
Recv(c) ==
    /\ chan[c] > 0
    /\ chan' = [ chan EXCEPT ![c] = @ - 1 ]
    /\ UNCHANGED << file_locks, cells, files, call, task, sent, faults, last_saved, serial, rx, closer, probe, lin >>

\* the caller drops the receiver of a running fetch, and with it the
\* messages not yet received
DropReceiver(c) ==
    /\ rx[c] = "open"
    /\ call[c].kind = "fetch"
    /\ call[c].pc = "running"
    /\ rx' = [ rx EXCEPT ![c] = "dropped" ]
    /\ chan' = [ chan EXCEPT ![c] = 0 ]
    /\ UNCHANGED << file_locks, cells, files, call, task, sent, faults, last_saved,
                    serial, closer, probe, lin >>

\* a send on a channel whose receiver is dropped returns an error
SendFails(c) == rx[c] = "dropped"

\* a task that reports the load error on the last coordinate of its group
FetchSendErrorLast(t) ==
    /\ task[t].pc = "send_err"
    /\ IF SendFails(t[1])
       THEN UNCHANGED << chan, sent >>
       ELSE Send(t[1], Msg("Error", Group(t[1], t[2])[Len(Group(t[1], t[2]))], 0))
    /\ task' = [ task EXCEPT ![t].pc = "done" ]
    /\ UNCHANGED << file_locks, cells, files, call, faults, last_saved, serial, rx, closer, probe, lin >>

\* Err(err) => stream.send(LoadedData::Error((chunks[0], err))).await; return
\* (a failed send is logged)
FetchSendError(t) ==
    /\ task[t].pc = "send_err"
    /\ IF SendFails(t[1])
       THEN UNCHANGED << chan, sent >>
       ELSE Send(t[1], Msg("Error", Group(t[1], t[2])[1], 0))
    /\ task' = [ task EXCEPT ![t].pc = "done" ]
    /\ UNCHANGED << file_locks, cells, files, call, faults, last_saved, serial, rx, closer, probe, lin >>

\* chunk_serializer.read().await
AcquireRead(t) ==
    /\ task[t].pc = "lock"
    /\ call[t[1]].kind = "fetch"
    /\ cells[task[t].ser].writer = {}
    /\ cells' = [ cells EXCEPT ![task[t].ser].readers = @ \cup {t} ]
    /\ task' = [ task EXCEPT ![t] = [ @ EXCEPT !.pc = "stream", !.i = 1 ] ]
    /\ UNCHANGED << file_locks, files, call, chan, sent, faults, last_saved, serial, rx, closer, probe, lin >>

\* stream_chunk_data, the loop over the requested coordinates: a present
\* chunk joins the batch, an absent one is answered Missing at once; the
\* send of Missing is unwrapped with expect
StreamNext(t) ==
    /\ task[t].pc = "stream"
    /\ task[t].i <= Len(Group(t[1], t[2]))
    /\ LET chunk == Group(t[1], t[2])[task[t].i]
           index == get_chunk_index(chunk)
           region == cells[task[t].ser].value
       IN  IF index \in DOMAIN region
           THEN /\ task' = [ task EXCEPT ![t] =
                               [ @ EXCEPT !.batch = @ \cup { << task[t].i, region[index] >> },
                                          !.i = @ + 1 ] ]
                /\ UNCHANGED << cells, call, chan, sent >>
           ELSE IF SendFails(t[1])
           THEN /\ Panic(t)
                /\ UNCHANGED << chan, sent >>
           ELSE /\ Send(t[1], Msg("Missing", chunk, 0))
                /\ task' = [ task EXCEPT ![t].i = @ + 1 ]
                /\ UNCHANGED << cells, call >>
    /\ UNCHANGED << file_locks, files, faults, last_saved, serial, rx, closer, probe, lin >>

\* the end of the loop: return when nothing is left to decode, otherwise
\* rayon::spawn the batch
StreamSpawn(t) ==
    /\ task[t].pc = "stream"
    /\ task[t].i > Len(Group(t[1], t[2]))
    /\ IF task[t].batch = {}
       THEN TaskEnds(t, "ok")
       ELSE /\ task' = [ task EXCEPT ![t] = [ @ EXCEPT !.pc = "check", !.worker = TRUE ] ]
            /\ UNCHANGED cells
    /\ UNCHANGED << file_locks, files, call, chan, sent, faults, last_saved, serial, rx, closer, probe, lin >>

\* a panic on a thread of the worker pool: the closure is abandoned, the
\* flag is never stored and nobody is notified
WorkerPanics(t, why) ==
    task' = [ task EXCEPT ![t] =
                [ @ EXCEPT !.worker = FALSE, !.batch = {}, !.res = why ] ]

\* one item of the parallel iterator: to_chunk and blocking_send; the
\* decompression inside to_chunk and the send are unwrapped with expect
WorkerSend(t) ==
    /\ task[t].worker
    /\ \E item \in task[t].batch :
         LET at == Group(t[1], t[2])[item[1]]
             result == to_chunk_result(item[2])
             chunk == to_chunk(item[2], at)
         IN  IF result = "panic"
             THEN /\ WorkerPanics(t, "decompress_panic")
                  /\ UNCHANGED << chan, sent >>
             ELSE IF SendFails(t[1])
             THEN /\ WorkerPanics(t, "send_panic")
                  /\ UNCHANGED << chan, sent >>
             ELSE /\ Send(t[1], IF result = "ok"
                                THEN Msg("Loaded", chunk.position, chunk.subchunks)
                                ELSE Msg("Error", at, 0))
                  /\ task' = [ task EXCEPT ![t].batch = @ \ {item} ]
    /\ UNCHANGED << file_locks, cells, files, call, faults, last_saved, serial, rx, closer, probe, lin >>

\* after for_each: finished_fast.store(true); internal_notify.notify_waiters()
\* wakes the task only if it is already waiting
WorkerFinish(t) ==
    /\ task[t].worker
    /\ task[t].batch = {}
    /\ task' = [ task EXCEPT ![t] =
                   [ @ EXCEPT !.worker = FALSE, !.flag = TRUE,
                              !.pc = IF @ = "parked" THEN "woken" ELSE @ ] ]
    /\ UNCHANGED << file_locks, cells, files, call, chan, sent, faults, last_saved, serial, rx, closer, probe, lin >>

\* the task returns without looking at the flag
stream_returns_early(t) == TRUE

\* the task may return as soon as it sees the flag
stream_may_return(t) == task[t].flag

\* if finished_before_await_notify.load(..) { return; }
StreamCheck(t) ==
    /\ task[t].pc = "check"
    /\ IF stream_may_return(t)
       THEN TaskEnds(t, "ok")
       ELSE /\ task' = [ task EXCEPT ![t].pc = "notified" ]
            /\ UNCHANGED cells
    /\ UNCHANGED << file_locks, files, call, chan, sent, faults, last_saved, serial, rx, closer, probe, lin >>

\* notify.notified(): from here on notify_waiters reaches the task
StreamAwait(t) ==
    /\ task[t].pc = "notified"
    /\ task' = [ task EXCEPT ![t].pc = "parked" ]
    /\ UNCHANGED << file_locks, cells, files, call, chan, sent, faults, last_saved, serial, rx, closer, probe, lin >>

\* .await returns after the notification
StreamWake(t) ==
    /\ task[t].pc = "woken"
    /\ TaskEnds(t, "ok")
    /\ UNCHANGED << file_locks, files, call, chan, sent, faults, last_saved, serial, rx, closer, probe, lin >>

\* join_all(tasks).await of fetch_chunks
AllTasksDone(c) == \A t \in TasksOf(c) : task[t].pc = "done"

\* a fetch_chunks that empties the map before it returns
FetchReturnClearing(c) ==
    /\ call[c].kind = "fetch"
    /\ call[c].pc = "running"
    /\ AllTasksDone(c)
    /\ call' = [ call EXCEPT ![c].pc = "returned" ]
    /\ file_locks' = [ p \in Paths |-> NoTask ]
    /\ cells' = DropCells(cells, file_locks', task)
    /\ UNCHANGED << files, task, chan, sent, faults, last_saved, serial, rx, closer, probe, lin >>

FetchReturn(c) ==
    /\ call[c].kind = "fetch"
    /\ call[c].pc = "running"
    /\ AllTasksDone(c)
    /\ call' = [ call EXCEPT ![c].pc = "returned" ]
    /\ UNCHANGED << file_locks, cells, files, task, chan, sent, faults, last_saved, serial, rx, closer, probe, lin >>



(***************************************************************************)
(* save_chunks: the region task after read_file.                           *)
(***************************************************************************)
\* a write lock granted whoever holds the lock
write_lock_always_free(id) == TRUE

\* RwLock::write is granted when nobody holds the lock
write_lock_free(id) == cells[id].writer = {} /\ cells[id].readers = {}

\* chunk_serializer.write().await
AcquireWrite(t) ==
    /\ task[t].pc = "lock"
    /\ call[t[1]].kind = "save"
    /\ write_lock_free(task[t].ser)
    /\ cells' = [ cells EXCEPT ![task[t].ser].writer = {t} ]
    /\ task' = [ task EXCEPT ![t].pc = "update" ]
    /\ UNCHANGED << file_locks, files, call, chan, sent, faults, last_saved, serial, rx, closer, probe, lin >>

\* update_chunks followed by the release of the write guard
UpdateChunksReleasing(t) ==
    /\ task[t].pc = "update"
    /\ LET id == task[t].ser
           region == add_chunk_data(cells[id].value, Group(t[1], t[2]))
       IN  /\ cells' = [ cells EXCEPT ![id] =
                           [ @ EXCEPT !.value = region, !.writer = {} ] ]
           /\ task' = [ task EXCEPT ![t] = [ @ EXCEPT !.applied = region, !.pc = "wopen" ] ]
    /\ UNCHANGED << file_locks, files, call, chan, sent, faults, last_saved, serial, rx, closer, probe, lin >>

\* serializer.update_chunks(&chunk_locks) and serializer.downgrade()
UpdateChunks(t) ==
    /\ task[t].pc = "update"
    /\ LET id == task[t].ser
           region == add_chunk_data(cells[id].value, Group(t[1], t[2]))
       IN  /\ cells' = [ cells EXCEPT ![id] =
                           [ @ EXCEPT !.value = region, !.writer = {}, !.readers = {t} ] ]
           /\ task' = [ task EXCEPT ![t] = [ @ EXCEPT !.applied = region, !.pc = "wopen" ] ]
    /\ UNCHANGED << file_locks, files, call, chan, sent, faults, last_saved, serial, rx, closer, probe, lin >>

\* an I/O error ends write_file and the region task
WriteFailed(t) ==
    LET after == [ task EXCEPT ![t] =
                     [ @ EXCEPT !.pc = "done", !.res = "write_err", !.ser = NoTask,
                                !.fd = "none", !.applied = DefaultRegion ] ]
    IN  /\ task' = after
        /\ cells' = DropCells(Release(task[t].ser, t), file_locks, after)
        /\ files' = CloseFiles(files, after)

WriteFault(t) ==
    /\ faults < MaxFaults
    /\ faults' = faults + 1
    /\ WriteFailed(t)

\* write_file, OpenOptions::create(true).truncate(true).open(tmp_path): the
\* file named <path>.tmp is created or, when it exists, truncated in place
WriteOpen(t) ==
    /\ task[t].pc = "wopen"
    /\ \/ WriteFault(t)
       \/ /\ files' = [ files EXCEPT ![TmpOf(t[2])] =
                          [ st |-> "empty", data |-> EmptyImage, by |-> t ] ]
          /\ task' = [ task EXCEPT ![t] = [ @ EXCEPT !.fd = "tmp", !.pc = "wwrite" ] ]
          /\ UNCHANGED << cells, faults >>
    /\ UNCHANGED << file_locks, call, chan, sent, last_saved, serial, rx, closer, probe, lin >>

\* what a write of task t through its descriptor does to the folder: the
\* file the descriptor designates takes the bytes, whatever its name is now
WriteThrough(t, good, st, data) ==
    IF task[t].fd = "orphan" THEN files
    ELSE [ files EXCEPT ![FdName(t, task[t].fd)] =
             IF @.by = t /\ @.st = good
             THEN [ @ EXCEPT !.st = st, !.data = data ]
             ELSE [ @ EXCEPT !.st = "torn", !.data = EmptyImage ] ]

\* serializer.write(&mut buf_writer): the image goes to the buffered writer,
\* part of it reaches the file
WriteBytes(t) ==
    /\ task[t].pc = "wwrite"
    /\ \/ WriteFault(t)
       \/ /\ files' = WriteThrough(t, "empty", "partial",
                                   to_bytes(cells[task[t].ser].value))
          /\ task' = [ task EXCEPT ![t].pc = "wflush" ]
          /\ UNCHANGED << cells, faults >>
    /\ UNCHANGED << file_locks, call, chan, sent, last_saved, serial, rx, closer, probe, lin >>

\* buf_writer.flush(): the rest of the image reaches the file
WriteFlush(t) ==
    /\ task[t].pc = "wflush"
    /\ \/ WriteFault(t)
       \/ /\ files' = WriteThrough(t, "partial", "whole",
                                   files[FdName(t, task[t].fd)].data)
          /\ task' = [ task EXCEPT ![t].pc = "wrename" ]
          /\ UNCHANGED << cells, faults >>
    /\ UNCHANGED << file_locks, call, chan, sent, last_saved, serial, rx, closer, probe, lin >>

\* tokio::fs::rename(tmp_path, path): the file named <path>.tmp takes the
\* name <path>, the file that had it loses it; the descriptors of other
\* tasks follow their files.  The read guard and the region handle are
\* dropped when the task returns
WriteRename(t) ==
    /\ task[t].pc = "wrename"
    /\ \/ WriteFault(t)
       \/ /\ files[TmpOf(t[2])].st = "none"    \* renamed away by another task
          /\ WriteFailed(t)
          /\ UNCHANGED faults
       \/ /\ files[TmpOf(t[2])].st # "none"
          /\ LET after ==
                   [ u \in Tasks |->
                       IF u = t
                       THEN [ task[u] EXCEPT !.pc = "done", !.res = "ok",
                                             !.ser = NoTask, !.fd = "none",
                                             !.applied = DefaultRegion ]
                       ELSE IF u[2] = t[2] /\ task[u].fd = "tmp"
                       THEN [ task[u] EXCEPT !.fd = "real" ]
                       ELSE IF u[2] = t[2] /\ task[u].fd = "real"
                       THEN [ task[u] EXCEPT !.fd = "orphan" ]
                       ELSE task[u] ]
                 moved == [ files EXCEPT ![t[2]] = files[TmpOf(t[2])],
                                         ![TmpOf(t[2])] = NoFile ]
             IN  /\ task' = after
                 /\ files' = CloseFiles(moved, after)
                 /\ cells' = DropCells(Release(task[t].ser, t), file_locks, after)
          /\ UNCHANGED faults
    /\ UNCHANGED << file_locks, call, chan, sent, last_saved, serial, rx, closer, probe, lin >>

(***************************************************************************)
(* clean_cache, run by save_chunks after join_all.                         *)
(***************************************************************************)
\* a sweep that finds nothing to remove
evictable_never(p) == FALSE

\* the test of both passes: the cell is initialised and only the cache
\* holds its region
evictable(p) ==
    /\ file_locks[p] # NoTask
    /\ cells[file_locks[p]].init
    /\ strong_count(file_locks[p]) <= 1

\* the history of returned saves: the later pair of a coordinate wins
RECURSIVE Record(_, _)
Record(ls, req) ==
    IF req = << >> THEN ls
    ELSE Record([ ls EXCEPT ![Head(req)[1]] = Head(req)[2].subchunks ], Tail(req))

\* what save_chunks returns: the results of the region tasks are discarded
\* and the value is Ok(()) whatever they were
save_chunks_result(c) == "Ok"

\* first pass, under the shared map lock: collect paths_to_remove; with
\* nothing to remove clean_cache returns and save_chunks returns Ok(())
CleanCacheScan(c) ==
    /\ call[c].kind = "save"
    /\ call[c].pc = "running"
    /\ AllTasksDone(c)
    /\ map_lock_free
    /\ LET paths_to_remove == { p \in Paths : evictable(p) } IN
       call' = [ call EXCEPT ![c] =
                   IF paths_to_remove = {}
                   THEN [ @ EXCEPT !.pc = "returned" ]
                   ELSE [ @ EXCEPT !.pc = "sweep", !.remove = paths_to_remove ] ]
    /\ last_saved' = IF call'[c].pc = "returned"
                     THEN Record(last_saved, call[c].req) ELSE last_saved
    /\ UNCHANGED << file_locks, cells, files, task, chan, sent, faults, serial, rx, closer, probe, lin >>

\* second pass, under the exclusive map lock: re-check and remove; then
\* save_chunks returns Ok(())
CleanCacheRemove(c) ==
    /\ call[c].pc = "sweep"
    /\ map_lock_free
    /\ LET fl == [ p \in Paths |->
                     IF p \in call[c].remove /\ evictable(p)
                     THEN NoTask ELSE file_locks[p] ]
       IN  /\ file_locks' = fl
           /\ cells' = DropCells(cells, fl, task)
    /\ call' = [ call EXCEPT ![c] = [ @ EXCEPT !.pc = "returned", !.remove = {} ] ]
    /\ last_saved' = Record(last_saved, call[c].req)
    /\ UNCHANGED << files, task, chan, sent, faults, serial, rx, closer, probe, lin >>

(***************************************************************************)
(* The caller takes the result of a returned call and drops its future and *)
(* its receiver.                                                           *)
(***************************************************************************)
Retire(c) ==
    /\ call[c].pc = "returned"
    /\ call' = [ call EXCEPT ![c] = [ IdleCall EXCEPT !.pc = "retired" ] ]
    /\ task' = [ t \in Tasks |-> IF t[1] = c THEN IdleTask ELSE task[t] ]
    /\ chan' = [ chan EXCEPT ![c] = 0 ]
    /\ sent' = [ sent EXCEPT ![c] = EmptyBag ]
    /\ UNCHANGED << file_locks, cells, files, faults, last_saved, serial, rx, closer, probe, lin >>

(***************************************************************************)
(* close().                                                                *)
(***************************************************************************)
\* self.file_locks.write().await, the snapshot of the entries and the first
\* poll of the tasks: an initialised entry is to be write-locked, an
\* uninitialised one is skipped with a warning
CloseStart ==
    /\ closer.pc = "idle"
    /\ closer' = [ closer EXCEPT
                     !.pc = "locking",
                     !.todo = { file_locks[p] : p \in
                                  { q \in Paths : file_locks[q] # NoTask
                                                  /\ cells[file_locks[q]].init } } ]
    /\ UNCHANGED << file_locks, cells, files, call, task, chan, sent, faults,
                    last_saved, serial, rx, probe, lin >>

\* lock.write().await of one entry
CloseAcquire(id) ==
    /\ closer.pc = "locking"
    /\ id \in closer.todo
    /\ cells[id].writer = {} /\ cells[id].readers = {}
    /\ cells' = [ cells EXCEPT ![id].writer = { << 0, << "r", 0, 0, "close" >> >> } ]
    /\ closer' = [ closer EXCEPT !.todo = @ \ {id}, !.held = @ \cup {id} ]
    /\ UNCHANGED << file_locks, files, call, task, chan, sent, faults,
                    last_saved, serial, rx, probe, lin >>

\* join_all(tasks) has completed: every guard is held
close_has_locked == closer.pc = "locking" /\ closer.todo = {}

\* let _ = join_all(tasks).await drops the guards; close() returns and
\* releases the lock of the map; the map is left as it is
CloseReturn ==
    /\ close_has_locked
    /\ cells' = [ id \in Tasks |->
                    IF id \in closer.held
                    THEN [ cells[id] EXCEPT !.writer = {} ] ELSE cells[id] ]
    /\ closer' = [ pc |-> "done", todo |-> {}, held |-> {} ]
    /\ UNCHANGED << file_locks, files, call, task, chan, sent, faults,
                    last_saved, serial, rx, probe, lin >>

(***************************************************************************)
(* The specifications.                                                     *)
(***************************************************************************)
\* no returned call is waiting to be retired
Quiet == \A c \in Calls : call[c].pc # "returned"

\* a returned call is retired before anything else happens
Next ==
    \/ \E c \in Calls : Retire(c)
    \/ Quiet /\ \E c \in Calls : StartFetch(c)
    \/ Quiet /\ \E c \in Calls : StartSave(c)
    \/ Quiet /\ \E t \in Tasks : ReadFileLookup(t)
    \/ Quiet /\ \E t \in Tasks : ReadFileInsert(t)
    \/ Quiet /\ \E t \in Tasks : GetOrTryInit(t)
    \/ Quiet /\ \E t \in Tasks : ReadFromDisk(t)
    \/ Quiet /\ \E t \in Tasks : FetchSendError(t)
    \/ Quiet /\ \E t \in Tasks : AcquireRead(t)
    \/ Quiet /\ \E t \in Tasks : StreamNext(t)
    \/ Quiet /\ \E t \in Tasks : StreamSpawn(t)
    \/ Quiet /\ \E t \in Tasks : WorkerSend(t)
    \/ Quiet /\ \E t \in Tasks : WorkerFinish(t)
    \/ Quiet /\ \E t \in Tasks : StreamCheck(t)
    \/ Quiet /\ \E t \in Tasks : StreamAwait(t)
    \/ Quiet /\ \E t \in Tasks : StreamWake(t)
    \/ Quiet /\ \E c \in Calls : FetchReturn(c)
    \/ Quiet /\ \E c \in Calls : Recv(c)
    \/ Quiet /\ \E t \in Tasks : AcquireWrite(t)
    \/ Quiet /\ \E t \in Tasks : UpdateChunks(t)
    \/ Quiet /\ \E t \in Tasks : WriteOpen(t)
    \/ Quiet /\ \E t \in Tasks : WriteBytes(t)
    \/ Quiet /\ \E t \in Tasks : WriteFlush(t)
    \/ Quiet /\ \E t \in Tasks : WriteRename(t)
    \/ Quiet /\ \E c \in Calls : CleanCacheScan(c)
    \/ Quiet /\ \E c \in Calls : CleanCacheRemove(c)

\* calls overlap freely
Spec == Init /\ [][Next]_vars

\* one call at a time
SpecSerial == InitSerial /\ [][Next]_vars

\* the steps of a behaviour in which close() is called once
NextClose ==
    \/ Next
    \/ Quiet /\ CloseStart
    \/ Quiet /\ \E id \in Tasks : CloseAcquire(id)
    \/ Quiet /\ CloseReturn

SpecClose == InitClose /\ [][NextClose]_vars

\* the steps of a behaviour in which the caller may drop receivers
NextHostile ==
    \/ Next
    \/ Quiet /\ \E c \in Calls : DropReceiver(c)

SpecHostile == InitHostile /\ [][NextHostile]_vars

(***************************************************************************)
(* Vocabulary of the properties.                                           *)
(***************************************************************************)
\* call c has returned to its caller (and is not yet retired)
Returned(c, kind) == call[c].kind = kind /\ call[c].pc = "returned"

\* how often coordinate at occurs in a fetch request
RECURSIVE Occurrences(_, _)
Occurrences(req, at) ==
    IF req = << >> THEN 0
    ELSE (IF Head(req) = at THEN 1 ELSE 0) + Occurrences(Tail(req), at)

\* the messages of call c about coordinate at, and their number
SentAbout(c, at) == { m \in BagToSet(sent[c]) : m.at = at }

RECURSIVE Copies(_, _)
Copies(c, S) ==
    IF S = {} THEN 0
    ELSE LET m == CHOOSE x \in S : TRUE
         IN  CopiesIn(m, sent[c]) + Copies(c, S \ {m})

SentTo(c, at) == Copies(c, SentAbout(c, at))

\* the messages of call c about the coordinates of region key p
SentToGroup(c, p) ==
    Copies(c, { m \in BagToSet(sent[c]) : get_chunk_key(m.at) = p })

\* the coordinates a fetch asked for
Asked(c) == { at \in Coords : Occurrences(call[c].req, at) > 0 }

\* the region task of call c that serves coordinate at
TaskOf(c, at) == << c, get_chunk_key(at) >>

\* no sender of call c is left: every region task is done, no worker runs
NoSenderLeft(c) ==
    \A t \in TasksOf(c) : task[t].pc = "done" /\ ~task[t].worker /\ task[t].batch = {}

(***************************************************************************)
(* C1.  fetch_chunks answers every requested coordinate.                   *)
(***************************************************************************)
\* C1 as stated: when a fetch_chunks call returns, every requested
\* coordinate, counted with multiplicity, has exactly one message (Loaded,
\* Missing or Error), and nothing of the call is left to send.
C1_OneMessagePerCoordinate ==
    \A c \in Calls : Returned(c, "fetch") =>
        /\ NoSenderLeft(c)
        /\ \A at \in Coords : SentTo(c, at) = Occurrences(call[c].req, at)

\* C1, amended: when a fetch_chunks call returns, nothing of the call is
\* left to send; every coordinate of a group whose region was loaded has
\* exactly one message per occurrence; a group whose lazy load failed has
\* exactly one message, an Error for the first coordinate of the group.
C1_OneMessagePerLoadedCoordinate ==
    \A c \in Calls : Returned(c, "fetch") =>
        /\ NoSenderLeft(c)
        /\ \A t \in TasksOf(c) :
             IF task[t].res = "load_err"
             THEN /\ SentToGroup(c, t[2]) = 1
                  /\ CopiesIn(Msg("Error", Group(c, t[2])[1], 0), sent[c]) = 1
             ELSE \A at \in Coords : get_chunk_key(at) = t[2] =>
                    SentTo(c, at) = Occurrences(call[c].req, at)

\* a fetch returned after the load of a group of two coordinates failed
C1_Witness ==
    \E c \in Calls : Returned(c, "fetch") /\
        \E t \in TasksOf(c) : task[t].res = "load_err" /\ Len(Group(c, t[2])) = 2

(***************************************************************************)
(* C2.  A slot that was never saved is answered Missing.                   *)
(***************************************************************************)
\* C2 as stated: a fetch of a coordinate whose slot was never saved (the
\* region file may not exist) yields exactly one Missing per occurrence of
\* the coordinate and no Error.
C2_NeverSavedIsMissing ==
    \A c \in Calls : Returned(c, "fetch") =>
        \A at \in Asked(c) : last_saved[at] = 0 =>
            /\ CopiesIn(Msg("Missing", at, 0), sent[c]) = Occurrences(call[c].req, at)
            /\ SentTo(c, at) = Occurrences(call[c].req, at)

\* C2, amended: provided the lazy load of the region did not fail, a fetch
\* of a coordinate whose slot was never saved yields exactly one Missing
\* per occurrence of the coordinate and nothing else for it.
C2_NeverSavedIsMissingUnlessLoadFails ==
    \A c \in Calls : Returned(c, "fetch") =>
        \A at \in Asked(c) :
            last_saved[at] = 0 /\ task[TaskOf(c, at)].res = "ok" =>
                /\ CopiesIn(Msg("Missing", at, 0), sent[c]) = Occurrences(call[c].req, at)
                /\ SentTo(c, at) = Occurrences(call[c].req, at)

\* a fetch of a never-saved coordinate returned, the region file not existing
C2_Witness ==
    \E c \in Calls : Returned(c, "fetch") /\
        \E at \in Asked(c) :
            /\ last_saved[at] = 0
            /\ files[get_chunk_key(at)].st = "none"
            /\ task[TaskOf(c, at)].res = "ok"
            /\ CopiesIn(Msg("Missing", at, 0), sent[c]) = 1

(***************************************************************************)
(* C3.  A fetch after saves yields the latest saved contents.              *)
(***************************************************************************)
\* C3 as stated: after completed save_chunks calls, a fetch of a saved
\* coordinate yields Loaded with the position and the contents of the most
\* recent save that contained the coordinate (stated for the fetches whose
\* own lazy load did not fail).
C3_FetchYieldsLastSaved ==
    \A c \in Calls : Returned(c, "fetch") =>
        \A at \in Asked(c) :
            last_saved[at] # 0 /\ task[TaskOf(c, at)].res = "ok" =>
            CopiesIn(Msg("Loaded", at, last_saved[at]), sent[c])
                = Occurrences(call[c].req, at)

(***************************************************************************)
(* C4.  Mutation of a region happens under its write lock.                 *)
(***************************************************************************)
\* the positions at which a task holds a guard of its region's lock
Updating(t) == task[t].pc = "update"

Reading(t) ==
    task[t].pc \in { "stream", "check", "notified", "parked", "woken",
                     "wopen", "wwrite", "wflush", "wrename" }

\* C4: in every reachable state at most one save task is inside update for
\* a given region, and no task holds the read lock of a region while a save
\* task is applying updates to it.
C4_UpdateIsExclusive ==
    \A t, u \in Tasks :
        t # u /\ Updating(t) /\ task[u].ser = task[t].ser =>
            ~Updating(u) /\ ~Reading(u)

\* a save task is inside update while another task of the same region
\* waits for the lock
C4_Witness ==
    \E t, u \in Tasks :
        /\ t # u
        /\ Updating(t)
        /\ task[u].ser = task[t].ser
        /\ task[u].pc = "lock"

(***************************************************************************)
(* C5.  The downgrade keeps the region fixed until it is persisted.        *)
(***************************************************************************)
\* task t finishes write_file successfully in this step
Persists(t) ==
    task[t].pc = "wrename" /\ task'[t].pc = "done" /\ task'[t].res = "ok"

\* C5 as stated: from its update to the end of its file write a save task
\* holds the read lock of its region, no writer holds that lock, the region
\* stays as the update left it, and the bytes persisted are the encoding
\* of that region state.
C5_PersistsWhatWasApplied ==
    [][ \A t \in Tasks :
          /\ task[t].pc \in { "wopen", "wwrite", "wflush", "wrename" } =>
                /\ t \in cells[task[t].ser].readers
                /\ cells[task[t].ser].writer = {}
                /\ cells[task[t].ser].value = task[t].applied
          /\ Persists(t) =>
                /\ files'[t[2]].st = "whole"
                /\ files'[t[2]].data = to_bytes(task[t].applied) ]_vars

(***************************************************************************)
(* C6.  The tasks of one region path share one region object.              *)
(***************************************************************************)
\* C6 as stated: all in-flight tasks operating on the same region path hold
\* the same region object.
C6_OneRegionObjectPerPath ==
    \A t, u \in Tasks :
        t[2] = u[2] /\ task[t].ser # NoTask /\ task[u].ser # NoTask =>
            task[t].ser = task[u].ser

(***************************************************************************)
(* C7.  The sweep evicts only entries nobody uses.                         *)
(***************************************************************************)
\* the sweep removes the entry of path p in this step
Evicts(p) == file_locks[p] # NoTask /\ file_locks'[p] = NoTask

\* C7 as stated: the sweep discards an entry only when the strong count of
\* its region handle is at most one at the moment of removal, that is when
\* no in-flight task is using or about to use the entry.
C7_EvictsOnlyUnused ==
    [][ \A p \in Paths : Evicts(p) =>
          /\ strong_count(file_locks[p]) <= 1
          /\ \A t \in Tasks : task[t].once # file_locks[p] /\ task[t].ser # file_locks[p]
      ]_vars

(***************************************************************************)
(* C8.  A save leaves no entry for the regions it saved.                   *)
(***************************************************************************)
\* C8 as stated: when a save_chunks call returns and nobody else uses the
\* cache, the map holds no entry for the path of any region of the call,
\* whether its region task succeeded or failed.
C8_NoEntryAfterSave ==
    \A c \in Calls : Returned(c, "save") =>
        \A t \in TasksOf(c) : file_locks[t[2]] = NoTask

\* C8, amended: when a save_chunks call returns and nobody else uses the
\* cache, the map holds no entry for the path of any region of the call
\* whose lazy load succeeded, whether its write succeeded or failed; the
\* entry of a region whose load failed stays, uninitialised.
C8_NoEntryAfterSaveOfLoadedRegion ==
    \A c \in Calls : Returned(c, "save") =>
        \A t \in TasksOf(c) :
            IF task[t].res = "load_err"
            THEN file_locks[t[2]] # NoTask /\ ~cells[file_locks[t[2]]].init
            ELSE file_locks[t[2]] = NoTask

\* a save returned after the write of one of its regions failed
C8_Witness ==
    \E c \in Calls : Returned(c, "save") /\
        \E t \in TasksOf(c) : task[t].res = "write_err" /\ file_locks[t[2]] = NoTask

(***************************************************************************)
(* C9.  A fetch never removes an entry of the map.                         *)
(***************************************************************************)
\* C9: an entry leaves the map only in the removal pass of the sweep of a
\* save_chunks call; no step of a fetch_chunks call removes or replaces an
\* entry, so the keys of the map after a fetch include the keys before it
\* unless a save swept in between.
C9_OnlySaveSweepRemoves ==
    [][ \A p \in Paths :
          file_locks[p] # NoTask /\ file_locks'[p] # file_locks[p] =>
              \E c \in Calls :
                  /\ call[c].kind = "save"
                  /\ call[c].pc = "sweep"
                  /\ call'[c].pc = "returned"
                  /\ p \in call[c].remove ]_vars

\* a fetch returned and the entry its task inserted is in the map
C9_Witness ==
    \E c \in Calls : Returned(c, "fetch") /\
        \E t \in TasksOf(c) : file_locks[t[2]] = t /\ cells[t].init

(***************************************************************************)
(* C10.  The real path holds a complete image.                             *)
(***************************************************************************)
\* C10 as stated: the file at the real path changes only in the rename
\* step of write_file, and the file renamed is a complete image; at every
\* point the real path holds no file or one complete image.
C10_RealPathIsComplete ==
    [][ \A p \in Paths :
          /\ files[p].st \in { "none", "whole" }
          /\ files'[p] # files[p] =>
                /\ \E t \in Tasks : t[2] = p /\ Persists(t)
                /\ files'[p].st = "whole" ]_vars

(***************************************************************************)
(* C11.  save_chunks reports the failure of a region task.                 *)
(***************************************************************************)
\* a region task of call c failed: its lazy load or its write_file
Failed(t) == task[t].res \in { "load_err", "write_err" }

\* C11 as stated: if a region task of a save_chunks call fails (load error
\* before the write, or I/O error while writing, flushing or renaming), the
\* call returns an error.
C11_SaveReturnsError ==
    \A c \in Calls : Returned(c, "save") =>
        ((\E t \in TasksOf(c) : Failed(t)) => save_chunks_result(c) = "Err")

(***************************************************************************)
(* C12.  The cache keeps the updates of a save whose write failed.         *)
(***************************************************************************)
\* region holds every chunk of the list, as to_chunk gives it back
Holds(region, chunks) ==
    \A k \in 1 .. Len(chunks) :
        LET index == get_chunk_index(chunks[k].position)
        IN  /\ index \in DOMAIN region
            /\ to_chunk(region[index], chunks[k].position) = chunks[k]

\* C12 as stated: when a save task has applied its updates and its disk
\* write then failed, the cache retains the updates: when the call returns
\* the map has the entry of the path, initialised, with the updated chunks
\* (so that a later fetch through the cache gets them).
C12_CacheKeepsUnwrittenUpdates ==
    \A c \in Calls : Returned(c, "save") =>
        \A t \in TasksOf(c) : task[t].res = "write_err" =>
            /\ file_locks[t[2]] # NoTask
            /\ cells[file_locks[t[2]]].init
            /\ Holds(cells[file_locks[t[2]]].value, Group(c, t[2]))

(***************************************************************************)
(* C13.  An initialised entry equals the file.                             *)
(***************************************************************************)
\* the image a region file holds: a missing file reads as the default
DiskImage(p) ==
    IF files[p].st = "none" THEN to_bytes(DefaultRegion) ELSE files[p].data

\* a save task of path p is between its update and the end of write_file
Persisting(p) ==
    \E t \in Tasks : t[2] = p /\
        task[t].pc \in { "update", "wopen", "wwrite", "wflush", "wrename" }

\* C13 as stated, for the states in which the claim can be meant: for every
\* entry that exists and is initialised, while no save task of the path is
\* between update and the end of its write and no file operation has
\* failed, the region encodes to the image the file holds (the most recent
\* successful write, or the contents at load time).
C13_EntryEqualsFile ==
    \A p \in Paths :
        /\ file_locks[p] # NoTask
        /\ cells[file_locks[p]].init
        /\ ~Persisting(p)
        /\ faults = 0
        /\ files[p].st \in { "none", "whole" }
        => to_bytes(cells[file_locks[p]].value) = DiskImage(p)

(***************************************************************************)
(* C14.  The locks held at the rename.                                     *)
(***************************************************************************)
\* C14 as stated: at the moment a save task renames the temporary file
\* onto the region path it holds no read or write lock on the region.
C14_NoLockAtRename ==
    [][ \A t \in Tasks : Persists(t) =>
          /\ t \notin cells[task[t].ser].readers
          /\ t \notin cells[task[t].ser].writer ]_vars

\* C14, amended: at the moment a save task renames the temporary file onto
\* the region path it is inside no operation on the map, holds no write
\* lock, and holds the read lock of its region, which it got by downgrade.
C14_ReadLockAtRename ==
    [][ \A t \in Tasks : Persists(t) =>
          /\ t \in cells[task[t].ser].readers
          /\ cells[task[t].ser].writer = {}
          /\ task[t].once = NoTask ]_vars

\* a save task has renamed its file and returned
C14_Witness ==
    \E t \in Tasks :
        /\ call[t[1]].kind = "save"
        /\ task[t].pc = "done" /\ task[t].res = "ok"
        /\ files[t[2]].st = "whole"
        /\ files[TmpOf(t[2])].st = "none"

(***************************************************************************)
(* C15.  close() establishes quiescence.                                   *)
(***************************************************************************)
\* task t is loading a region from disk
Loading(t) == task[t].pc = "open"

\* C15 as stated: at the point where close() has acquired the write lock of
\* the map and its write locks on the entries, no fetch or save task holds
\* a read or write lock of a region and none is loading a region from disk.
C15_CloseIsQuiescent ==
    [][ ~close_has_locked /\ close_has_locked' =>
          \A t \in Tasks : ~Reading(t)' /\ ~Updating(t)' /\ ~Loading(t)' ]_vars

(***************************************************************************)
(* C16.  close() releases all entries.                                     *)
(***************************************************************************)
\* C16 as stated: when close() returns, the cache map contains no entries.
C16_CloseEmptiesMap ==
    [][ closer.pc = "locking" /\ closer'.pc = "done" =>
          \A p \in Paths : file_locks'[p] = NoTask ]_vars

(***************************************************************************)
(* C17.  Concurrent fetches of one region run to completion.               *)
(***************************************************************************)
\* the worker of task t has stored the flag and notified, and t waits for a
\* notification: nothing can wake it
Stranded(t) ==
    task[t].pc = "parked" /\ task[t].flag /\ ~task[t].worker

\* fetch call c cannot complete: its consumer has received every message,
\* and each of its region tasks is done or stranded, one at least stranded
FetchStuck(c) ==
    /\ call[c].kind = "fetch"
    /\ call[c].pc = "running"
    /\ chan[c] = 0
    /\ \A t \in TasksOf(c) : task[t].pc = "done" \/ Stranded(t)
    /\ \E t \in TasksOf(c) : Stranded(t)

\* at least two calls have started and every call so far is a fetch
OnlyFetches ==
    /\ \A c \in Calls : call[c].kind # "save"
    /\ Cardinality({ c \in Calls : call[c].kind = "fetch" }) >= 2

\* C17 as stated: when fetch_chunks calls run concurrently on the same
\* coordinates of one region, with a channel smaller than the request and a
\* consumer that keeps receiving, no call panics and no call is left unable
\* to complete.
C17_ConcurrentFetchesComplete ==
    OnlyFetches =>
        \A c \in Calls : call[c].pc # "panicked" /\ ~FetchStuck(c)

(***************************************************************************)
(* C18.  stream_chunk_data returns once the batch is sent.                 *)
(***************************************************************************)
\* C18 as stated: in every interleaving of the worker's "store the flag,
\* notify_waiters" with the task's "check the flag, await the
\* notification", the task is never left waiting after the worker finished.
C18_StreamAlwaysReturns ==
    \A t \in Tasks : ~Stranded(t)

(***************************************************************************)
(* C19.  A dropped receiver.                                               *)
(***************************************************************************)
\* C19 as stated: when the receiver of the result channel is dropped during
\* a fetch, no send that fails makes the region task or a worker thread
\* panic.
C19_SendFailureIsTolerated ==
    \A t \in Tasks : task[t].res \notin { "panic", "send_panic" }

(***************************************************************************)
(* C20.  A read error of one stored chunk.                                 *)
(***************************************************************************)
\* the chunks the file of region key p stores
Stored(p) ==
    IF files[p].st = "whole" THEN from_bytes(files[p].data) ELSE DefaultRegion

\* the chunk stored for coordinate at cannot be read
Unreadable(at) ==
    LET region == Stored(get_chunk_key(at))
        index == get_chunk_index(at)
    IN  /\ index \in DOMAIN region
        /\ \/ region[index].compression \notin KnownCompression
           \/ to_chunk_result(region[index]) # "ok"

\* the kind of the answer coordinate at is due
Due(at) ==
    LET region == Stored(get_chunk_key(at))
    IN  IF get_chunk_index(at) \notin DOMAIN region THEN "Missing"
        ELSE IF Unreadable(at) THEN "Error"
        ELSE "Loaded"

\* C20 as stated: in the first call of a behaviour, a fetch whose receiver
\* stays and whose file operations all succeed, a stored chunk that cannot
\* be read makes no worker panic, and when the call returns every requested
\* coordinate has its messages, Error for the unreadable chunk and Loaded or
\* Missing for the others.
C20_ChunkErrorIsLocal ==
    call[1].kind = "fetch" /\ rx[1] = "open" /\ faults = 0 =>
        /\ \A t \in TasksOf(1) : task[t].res # "decompress_panic"
        /\ call[1].pc = "returned" =>
             \A at \in Asked(1) :
                /\ SentTo(1, at) = Occurrences(call[1].req, at)
                /\ \A m \in SentAbout(1, at) : m.kind = Due(at)

(***************************************************************************)
(* C21.  The answer of a region whose lazy load failed.                    *)
(***************************************************************************)
\* the region task t of a fetch got an error from read_file
LoadFailedIn(t) ==
    call[t[1]].kind = "fetch" /\ task[t].res = "load_err"

\* C21: when the lazy load of a region fails during fetch_chunks, the task
\* of the region group sends nothing before its Error message, and once it
\* has completed the messages of the group are exactly one Error, for the
\* first coordinate of the group.
C21_OneErrorForFailedLoad ==
    \A t \in Tasks : LoadFailedIn(t) =>
        LET group == Group(t[1], t[2]) IN
        /\ task[t].pc = "send_err" => SentToGroup(t[1], t[2]) = 0
        /\ task[t].pc = "done" =>
             /\ SentToGroup(t[1], t[2]) = 1
             /\ CopiesIn(Msg("Error", group[1], 0), sent[t[1]]) = 1

\* a fetch of two different coordinates of one region has failed to load it
\* and its task has completed
C21_Witness ==
    \E t \in Tasks :
        /\ LoadFailedIn(t) /\ task[t].pc = "done"
        /\ Len(Group(t[1], t[2])) = 2
        /\ Group(t[1], t[2])[1] # Group(t[1], t[2])[2]

(***************************************************************************)
(* C22.  A region file that does not parse is not replaced.                *)
(***************************************************************************)
\* the file of path p exists and S::read rejects it
Unparseable(p) == files[p].st # "none" /\ ~read_ok(files[p])

\* no region object of path p exists, in the map or in the hands of a task
NotCached(p) == \A id \in Tasks : id[2] = p => ~cells[id].init

\* C22: while the file of a region does not parse and the region is not in
\* memory, no step initialises a cache entry of its path (to the default
\* region or to anything else), no save task of the path gets past its
\* load (its read_from_disk ends the task with the load error, nothing
\* applied), and no step changes the file.
C22_NoDefaultForBadFile ==
    [][ \A p \in Paths : Unparseable(p) /\ NotCached(p) =>
          /\ files'[p] = files[p]
          /\ NotCached(p)'
          /\ \A t \in Tasks :
                /\ t[2] = p /\ call[t[1]].kind = "save"
                /\ task[t].pc = "open" /\ task'[t].pc # "open"
                => /\ task'[t].pc = "done"
                   /\ task'[t].res = "load_err"
                   /\ task'[t].applied = DefaultRegion ]_vars

\* a save of a region whose file does not parse has failed at the load,
\* with no I/O error
C22_Witness ==
    \E t \in Tasks :
        /\ call[t[1]].kind = "save"
        /\ Unparseable(t[2])
        /\ task[t].pc = "done" /\ task[t].res = "load_err"
        /\ faults = 0

(***************************************************************************)
(* The functions of the serializers applied on their own.                  *)
(*                                                                         *)
(* In the specifications below the cache is at rest: the variables of the  *)
(* cache keep the values of an empty cache over an empty folder, and probe *)
(* holds the input and the result of the function applied.                 *)
(***************************************************************************)
CacheAtRest == InitFrom({ DefaultRegion }) /\ PlainCaller /\ serial = TRUE

(***************************************************************************)
(* Region keys and intra-region indices over a range of coordinates.       *)
(***************************************************************************)
\* the coordinates walked are those of the square -MaxCoord .. MaxCoord:
\* the regions -2 .. 1 on both axes
MaxCoord == 33

\* LinearChunkFormat::get_region_coords
linear_get_region_coords(at) == << Shr(at[1], 5), Shr(at[2], 5) >>

\* LinearChunkFormat::get_chunk_index
linear_get_chunk_index(at) ==
    LET region == linear_get_region_coords(at)
        decode_x == at[1] - (region[1] * REGION_SIZE)
        decode_z == at[2] - (region[2] * REGION_SIZE)
    IN  decode_x + (decode_z * REGION_SIZE)

\* format!("r.{}.{}.linear", region_x, region_z)
linear_path(at) ==
    LET region == linear_get_region_coords(at)
    IN  << "r", region[1], region[2], "linear" >>

\* nothing walked yet; seen maps a pair (region key, index) to the
\* coordinates that gave it
InitIndex ==
    /\ CacheAtRest
    /\ lin = NoLinear
    /\ probe = [ op |-> "index", n |-> 0, at |-> << 0, 0 >>,
                 key |-> << >>, index |-> 0, linear_key |-> << >>,
                 linear_index |-> 0, seen |-> << >> ]

\* get_chunk_key and get_chunk_index, of both formats, for the next
\* coordinate of the square
IndexNext ==
    /\ probe.op = "index"
    /\ probe.n < ((2 * MaxCoord) + 1) * ((2 * MaxCoord) + 1)
    /\ LET side == (2 * MaxCoord) + 1
           \* the n-th coordinate of the square, row by row
           at == << (probe.n % side) - MaxCoord, (probe.n \div side) - MaxCoord >>
           pair == << get_chunk_key(at), get_chunk_index(at) >>
       IN  probe' = [ op |-> "index", n |-> probe.n + 1, at |-> at,
                      key |-> pair[1], index |-> pair[2],
                      linear_key |-> linear_path(at),
                      linear_index |-> linear_get_chunk_index(at),
                      seen |-> IF pair \in DOMAIN probe.seen
                               THEN [ probe.seen EXCEPT ![pair] = @ \cup { at } ]
                               ELSE probe.seen @@ (pair :> { at }) ]
    /\ UNCHANGED << cache_vars, lin >>

SpecIndex == InitIndex /\ [][IndexNext]_vars

(***************************************************************************)
(* C23.  Region key and index identify the chunk.                          *)
(***************************************************************************)
\* C23: for every coordinate of the square, negative ones included, the
\* index of get_chunk_index lies in [0, 1024) and equals
\* ((z & 31) << 5) | (x & 31), the Linear format computes the same index,
\* and no other coordinate walked so far has the same region key and index.
C23_KeyAndIndexIdentifyChunk ==
    probe.op = "index" /\ probe.n > 0 =>
        LET x == probe.at[1]
            z == probe.at[2]
        IN  /\ probe.index \in 0 .. (CHUNK_COUNT - 1)
            /\ probe.index = BitOr(LowBits(z, 5) * Pow2(5), LowBits(x, 5))
            /\ probe.linear_index = probe.index
            /\ probe.seen[<< probe.key, probe.index >>] = { probe.at }

\* the walk has reached (-1, -1), whose index is the last of its region,
\* after coordinates of other regions with the same index
C23_Witness ==
    /\ probe.op = "index"
    /\ probe.at = << -1, -1 >>
    /\ probe.index = CHUNK_COUNT - 1
    /\ \E other \in DOMAIN probe.seen :
          other[2] = probe.index /\ other[1] # probe.key

(***************************************************************************)
(* AnvilChunkFile::to_bytes with its two tables.                           *)
(***************************************************************************)
\* the whole file image of to_bytes: for an absent chunk the loop puts 0
\* into the location table and 0 into the timestamp table; for a present
\* one the location of the cursor and timestamp_table[i]
to_bytes_tables(region, timestamp_table) ==
    LET image == to_bytes(region)
    IN  [ location_bytes |->
              [ i \in 0 .. (CHUNK_COUNT - 1) |->
                  IF i \in DOMAIN region THEN image.location[i] ELSE 0 ],
          timestamp_bytes |->
              [ i \in 0 .. (CHUNK_COUNT - 1) |->
                  IF i \in DOMAIN region THEN timestamp_table[i] ELSE 0 ],
          chunk_data |-> image.sectors ]

\* the chunks of the regions encoded: the first two indices, the first of
\* the second row and the last index
EncodeCoords == { << 0, 0 >>, << 1, 0 >>, << 0, 1 >>, << 31, 31 >> }

\* the region whose chunk at coordinate at has contents pick[at] (0: absent)
RECURSIVE ChunkList(_, _)
ChunkList(pick, left) ==
    IF left = {} THEN << >>
    ELSE LET at == CHOOSE c \in left : TRUE
         IN  (IF pick[at] = 0 THEN << >> ELSE << Chunk(at, pick[at]) >>)
             \o ChunkList(pick, left \ { at })

\* a timestamp table that is 0 but at the indices of EncodeCoords, where it
\* is stamp (a table read from a file keeps the timestamps of absent chunks)
TimestampTable(stamp) ==
    [ i \in 0 .. (CHUNK_COUNT - 1) |->
        IF \E at \in EncodeCoords : get_chunk_index(at) = i THEN stamp ELSE 0 ]

InitEncode ==
    /\ CacheAtRest
    /\ lin = NoLinear
    /\ \E pick \in [ EncodeCoords -> 0 .. MaxVer ],
          stamp \in { 0, 1 } :
         probe = [ op |-> "encode", region |-> add_chunk_data(DefaultRegion,
                                              ChunkList(pick, EncodeCoords)),
                   timestamp_table |-> TimestampTable(stamp),
                   done |-> FALSE, image |-> << >> ]

\* to_bytes of the region
Encode ==
    /\ probe.op = "encode"
    /\ ~probe.done
    /\ probe' = [ probe EXCEPT
                    !.done = TRUE,
                    !.image = to_bytes_tables(probe.region, probe.timestamp_table) ]
    /\ UNCHANGED << cache_vars, lin >>

SpecEncode == InitEncode /\ [][Encode]_vars

(***************************************************************************)
(* C24.  The sectors Anvil encode assigns.                                 *)
(***************************************************************************)
\* the sectors the chunks at the indices S of region take, by their sizes
RECURSIVE SectorsTaken(_, _)
SectorsTaken(region, S) ==
    IF S = {} THEN 0
    ELSE LET j == CHOOSE k \in S : TRUE
         IN  SectorCount(region[j]) + SectorsTaken(region, S \ { j })

\* the sectors of the chunks of region before index i
SectorsBefore(region, i) ==
    SectorsTaken(region, { j \in DOMAIN region : j < i })

\* the sectors a location entry names: offset .. offset + count - 1
SectorsOf(location) ==
    (location \div Pow2(8)) ..
        ((location \div Pow2(8)) + (location % Pow2(8)) - 1)

\* C24: in the image to_bytes produces, the location entry of a present
\* chunk is (cursor << 8) | sector_count, where the cursor is 2 plus the
\* sectors of the present chunks of smaller index; an absent chunk has 0 in
\* both tables; a region of one chunk has the entry (2 << 8) | sector_count;
\* the sector ranges of the present chunks are disjoint and fill the
\* sectors from 2 on, as many as the payload has.
C24_SectorsByOneCursor ==
    probe.op = "encode" /\ probe.done =>
        LET region == probe.region
            location == probe.image.location_bytes
            timestamp == probe.image.timestamp_bytes
        IN  /\ \A i \in 0 .. (CHUNK_COUNT - 1) :
                  IF i \in DOMAIN region
                  THEN /\ location[i] =
                            BitOr((2 + SectorsBefore(region, i)) * Pow2(8),
                                  SectorCount(region[i]))
                       /\ timestamp[i] = probe.timestamp_table[i]
                  ELSE location[i] = 0 /\ timestamp[i] = 0
            /\ \A i \in DOMAIN region :
                  DOMAIN region = { i } =>
                      location[i] = BitOr(2 * Pow2(8), SectorCount(region[i]))
            /\ \A i, j \in DOMAIN region :
                  i # j => SectorsOf(location[i]) \cap SectorsOf(location[j]) = {}
            /\ UNION { SectorsOf(location[i]) : i \in DOMAIN region }
                  = 2 .. (1 + Len(probe.image.chunk_data))

\* a region has been encoded in which a chunk of two sectors comes before
\* another chunk and an absent chunk has a timestamp in the table
C24_Witness ==
    /\ probe.op = "encode" /\ probe.done
    /\ \E i, j \in DOMAIN probe.region :
          i < j /\ SectorCount(probe.region[i]) = 2
    /\ \E i \in 0 .. (CHUNK_COUNT - 1) :
          i \notin DOMAIN probe.region /\ probe.timestamp_table[i] # 0

(***************************************************************************)
(* chunk_to_bytes: the palette and the packed block states of one section. *)
(*                                                                         *)
(* A sub-chunk is its array of block state ids.  The i64 words of the      *)
(* section are kept as the sets of their bits that are 1.                  *)
(***************************************************************************)
\* blocks of a sub-chunk in the model (16 * 16 * 16 in the program)
SubchunkVolume == 20

\* the largest number of distinct block states of a sub-chunk
MaxPalette == 17

\* pumpkin_util::math::ceil_log2: the least k with 2^k >= value
ceil_log2(value) ==
    LET RECURSIVE ceil_log2_from(_)
        ceil_log2_from(k) ==
            IF Pow2(k) >= value THEN k ELSE ceil_log2_from(k + 1)
    IN  ceil_log2_from(0)

\* u32::max
Max(a, b) == IF a >= b THEN a ELSE b

\* a bit size that is the logarithm alone
block_bit_size_by_log(len) == ceil_log2(len)

\* let block_bit_size = if palette.len() < 16 { 4 } else { ceil_log2(..).max(4) }
block_bit_size(len) ==
    IF len < 16 THEN 4 ELSE Max(ceil_log2(len), 4)

\* the bits of a non-negative integer that are 1
RECURSIVE BitsOf(_, _)
BitsOf(value, at) ==
    IF value = 0 THEN {}
    ELSE (IF value % 2 = 1 THEN { at } ELSE {}) \cup BitsOf(value \div 2, at + 1)

\* the loop over the blocks of a section, from block k on
RECURSIVE pack_blocks(_, _, _, _, _, _, _)
pack_blocks(blocks, k, palette, bits, section_longs, current_pack_long, bits_used_in_pack) ==
    IF k > Len(blocks)
    THEN IF bits_used_in_pack > 0
         THEN Append(section_longs, current_pack_long)
         ELSE section_longs
    ELSE LET full == bits_used_in_pack + bits > 64
             longs1 == IF full THEN Append(section_longs, current_pack_long)
                       ELSE section_longs
             long1 == IF full THEN {} ELSE current_pack_long
             used1 == IF full THEN 0 ELSE bits_used_in_pack
             index == palette[blocks[k]]
             \* (index as i64) << bits_used_in_pack: the bits shifted
             \* past bit 63 are lost
             long2 == long1 \cup { b \in BitsOf(index, used1) : b <= 63 }
             used2 == used1 + bits
         IN  IF used2 >= 64
             THEN pack_blocks(blocks, k + 1, palette, bits,
                              Append(longs1, long2), {}, 0)
             ELSE pack_blocks(blocks, k + 1, palette, bits,
                              longs1, long2, used2)

\* the section of one sub-chunk, given the order in which the HashSet of
\* its unique blocks is iterated: the palette index of a block is its place
\* in that order
section_to_bytes(blocks, order) ==
    LET palette == [ block \in { order[i] : i \in 1 .. Len(order) } |->
                       (CHOOSE i \in 1 .. Len(order) : order[i] = block) - 1 ]
        bits == block_bit_size(Len(order))
    IN  [ palette_index |-> palette,
          block_bit_size |-> bits,
          data |-> pack_blocks(blocks, 1, palette, bits, << >>, {}, 0),
          \* STATE_ID_TO_REGISTRY_ID: the registry name of the block a state
          \* belongs to; two consecutive states are states of one block
          palette |-> [ i \in 1 .. Len(order) |-> << "block", order[i] \div 2 >> ] ]

\* unique_blocks: HashSet<_> = blocks.iter().collect()
unique_blocks(blocks) == { blocks[k] : k \in 1 .. Len(blocks) }

\* orders in which a HashSet with a randomly keyed hasher may iterate over
\* the set S: the rotations of the sorted order and of its reverse
HashOrders(S) ==
    LET sorted == SortedSeq(S)
        reversed == [ i \in 1 .. Len(sorted) |-> sorted[(Len(sorted) + 1) - i] ]
        Rotated(seq, r) == SubSeq(seq, r + 1, Len(seq)) \o SubSeq(seq, 1, r)
    IN  { Rotated(sorted, r) : r \in 0 .. (Cardinality(S) - 1) }
        \cup { Rotated(reversed, r) : r \in 0 .. (Cardinality(S) - 1) }

\* a sub-chunk, not yet encoded, whose blocks go through the states
\* 0 .. P - 1 in turn
InitSection ==
    /\ CacheAtRest
    /\ lin = NoLinear
    /\ \E P \in 1 .. MaxPalette :
         probe = [ op |-> "section",
                   blocks |-> [ k \in 1 .. SubchunkVolume |-> (k - 1) % P ],
                   n |-> 0,
                   first |-> [ block_bit_size |-> 0 ],
                   second |-> [ block_bit_size |-> 0 ] ]

\* chunk_to_bytes of the chunk, the first and the second time
EncodeSection ==
    /\ probe.op = "section"
    /\ probe.n < 2
    /\ \E order \in HashOrders(unique_blocks(probe.blocks)) :
         LET section == section_to_bytes(probe.blocks, order)
         IN  probe' = IF probe.n = 0
                      THEN [ probe EXCEPT !.n = 1, !.first = section ]
                      ELSE [ probe EXCEPT !.n = 2, !.second = section ]
    /\ UNCHANGED << cache_vars, lin >>

SpecSection == InitSection /\ [][EncodeSection]_vars

(***************************************************************************)
(* C25.  Encoding twice gives the same bytes.                              *)
(***************************************************************************)
\* C25 as stated: encoding the same chunk twice yields the same bytes: the
\* same palette and the same packed words.
C25_SameBytesTwice ==
    probe.op = "section" /\ probe.n = 2 =>
        /\ probe.second.palette = probe.first.palette
        /\ probe.second.data = probe.first.data

(***************************************************************************)
(* C26.  Bit width and palette indices.                                    *)
(***************************************************************************)
\* the entry of block k in the packed words, read with width bits
EntryOf(data, k, bits) ==
    LET per_long == 64 \div bits
        long == data[((k - 1) \div per_long) + 1]
        shift == ((k - 1) % per_long) * bits
    IN  { b - shift : b \in { c \in long : c >= shift /\ c < shift + bits } }

\* C26: for a sub-chunk with P distinct block states the bit width is 4
\* when P < 16 and max(4, ceil_log2(P)) otherwise; the palette gives the
\* distinct states the distinct indices 0 .. P - 1; every index fits in the
\* width, so that each entry of the packed words is the index of its block.
C26_PaletteAndBitWidth ==
    probe.op = "section" /\ probe.n >= 1 =>
        LET section == probe.first
            P == Cardinality(unique_blocks(probe.blocks))
            B == section.block_bit_size
            index == section.palette_index
        IN  /\ P < 16 => B = 4
            /\ P >= 16 => B = Max(4, ceil_log2(P))
            /\ DOMAIN index = unique_blocks(probe.blocks)
            /\ { index[block] : block \in DOMAIN index } = 0 .. (P - 1)
            /\ \A a, b \in DOMAIN index : a # b => index[a] # index[b]
            /\ \A block \in DOMAIN index : index[block] < Pow2(B)
            /\ \A k \in 1 .. Len(probe.blocks) :
                  EntryOf(section.data, k, B) = BitsOf(index[probe.blocks[k]], 0)

\* a sub-chunk of 17 distinct states has been encoded with 5 bits an entry
C26_Witness ==
    /\ probe.op = "section" /\ probe.n >= 1
    /\ Cardinality(unique_blocks(probe.blocks)) = 17
    /\ probe.first.block_bit_size = 5

(***************************************************************************)
(* The Linear region format (chunk/linear.rs).  A region file is the      *)
(* signature, a header of 24 bytes, one zstd stream and the signature     *)
(* again.  The bytes outside the stream are modelled one by one; the      *)
(* stream is zstd's own business and is kept as what it decompresses to,  *)
(* together with its length in bytes.                                     *)
(***************************************************************************)

\* (0xc3ff13183cca9d9a_u64).to_be_bytes()
SIGNATURE == << 195, 255, 19, 24, 60, 202, 157, 154 >>

\* LinearFile::new: 1024 default headers and no data
LinearFile_new ==
    [ chunks_headers |-> [ i \in 0 .. (CHUNK_COUNT - 1) |->
                             [ size |-> 0, timestamp |-> 0 ] ],
      chunks_data |-> << >> ]

\* a path at which there is no file
NoLinearFile ==
    [ exists |-> FALSE, head |-> << >>,
      zstd |-> [ len |-> 0, whole |-> FALSE, content |-> LinearFile_new ],
      tail |-> << >> ]

\* the bytes of a file; 40 stands for every byte of the zstd stream (the
\* first byte of the zstd magic number), none of which is taken to
\* continue the signature
FileBytes(f) == f.head \o [ i \in 1 .. f.zstd.len |-> 40 ] \o f.tail

\* seek(SeekFrom::Start(pos)) and read_exact of n bytes: the bytes, or
\* << >> for the UnexpectedEof of a file that ends before
read_exact(f, pos, n) ==
    IF pos + n <= Len(FileBytes(f))
    THEN SubSeq(FileBytes(f), pos + 1, pos + n)
    ELSE << >>

check_signature_leading_only(f) ==
    IF read_exact(f, 0, 8) = << >> THEN "IoError"
    ELSE IF read_exact(f, 0, 8) # SIGNATURE THEN "InvalidHeader"
    ELSE "Ok"

\* LinearFile::check_signature: the first 8 bytes, then the last 8 bytes
\* (seek(SeekFrom::End(-8)) fails, as read_exact does, on a shorter file)
check_signature(f) ==
    IF read_exact(f, 0, 8) = << >> THEN "IoError"
    ELSE IF read_exact(f, 0, 8) # SIGNATURE THEN "InvalidHeader"
    ELSE IF Len(FileBytes(f)) < 8 THEN "IoError"
    ELSE IF read_exact(f, Len(FileBytes(f)) - 8, 8) # SIGNATURE THEN "InvalidHeader"
    ELSE "Ok"

\* LinearFile::load.  steps lists what the call has gone through: the
\* signatures, the header, the zstd stream, the chunk headers.
linear_load(f) ==
    LET Fail(error, steps) ==
            [ res |-> error, file |-> LinearFile_new, steps |-> steps ]
        \* u32::from_be_bytes; a first byte of 128 or more stands for a
        \* length no file of the model has
        from_be_bytes(bytes) ==
            IF bytes[1] >= 128 THEN Pow2(30)
            ELSE (bytes[1] * Pow2(24)) + (bytes[2] * Pow2(16))
                 + (bytes[3] * 256) + bytes[4]
        header_bytes == read_exact(f, 8, 24)
        \* LinearFileHeader::from_bytes with From<u8> for LinearVersion
        version == IF header_bytes[1] \in { 1, 2 } THEN header_bytes[1] ELSE 0
        chunks_bytes == from_be_bytes(SubSeq(header_bytes, 13, 16))
        \* zstd::decode_all(file.take(chunks_bytes)): the stream has to
        \* be there whole, and nothing but it
        decoded == f.zstd.whole /\ chunks_bytes = f.zstd.len
    IN  IF ~f.exists THEN Fail("ChunkNotExist", << >>)
        ELSE IF check_signature(f) # "Ok"
        THEN Fail(check_signature(f), << "signatures" >>)
        ELSE IF header_bytes = << >>
        THEN Fail("IoError", << "signatures" >>)
        ELSE IF version = 0
        THEN Fail("InvalidHeader", << "signatures", "header" >>)
        ELSE IF chunks_bytes = 0
        THEN \* nothing decompressed: drain(..CHUNK_HEADER_BYTES_SIZE)
             \* is out of range
             Fail("Panic", << "signatures", "header", "zstd" >>)
        ELSE IF ~decoded
        THEN Fail("IoError", << "signatures", "header", "zstd" >>)
        ELSE [ res |-> "Ok", file |-> f.zstd.content,
               steps |-> << "signatures", "header", "zstd", "chunk_headers" >> ]

\* LinearFile::save: the file that open(create, truncate) and
\* write_vectored leave at the path.  The length of the compressed stream
\* is zstd's; it is taken to grow with the data.
linear_save(file) ==
    LET headers == file.chunks_headers
        \* u{8n}::to_be_bytes, for the values below 2^31 that occur here
        to_be_bytes(value, n) ==
            [ i \in 1 .. n |-> IF n - i >= 4 THEN 0
                               ELSE (value \div Pow2(8 * (n - i))) % 256 ]
        compressed_len == 9 + Len(file.chunks_data)
        chunks_count == Cardinality({ i \in DOMAIN headers : headers[i].size # 0 })
        timestamps == { headers[i].timestamp : i \in DOMAIN headers }
        newest_timestamp == CHOOSE t \in timestamps : \A u \in timestamps : u <= t
        \* LinearFileHeader::to_bytes: version V1, the newest timestamp,
        \* the configured compression level, count, length, hash 0
        file_header ==
            << 1 >> \o to_be_bytes(newest_timestamp, 8) \o << 3 >>
            \o to_be_bytes(chunks_count, 2) \o to_be_bytes(compressed_len, 4)
            \o to_be_bytes(0, 8)
    IN  [ exists |-> TRUE,
          head |-> SIGNATURE \o file_header,
          zstd |-> [ len |-> compressed_len, whole |-> TRUE, content |-> file ],
          tail |-> SIGNATURE ]

\* the serialised chunk (AnvilChunkFormat::to_bytes of a chunk): the NBT
\* bytes, an opening tag, as many bytes as the chunk has of sub-chunk
\* data and a closing tag
chunk_raw(chunk) ==
    << 10 >> \o [ i \in 1 .. chunk.subchunks |-> chunk.subchunks ] \o << 0 >>

\* ChunkData::from_bytes(bytes, at)
ChunkData_from_bytes(bytes, at) ==
    IF /\ Len(bytes) >= 2
       /\ bytes[1] = 10
       /\ bytes[Len(bytes)] = 0
       /\ \A i \in 2 .. (Len(bytes) - 1) : bytes[i] = Len(bytes) - 2
    THEN [ res |-> "Ok", chunk |-> Chunk(at, Len(bytes) - 2) ]
    ELSE [ res |-> "ParsingError", chunk |-> Chunk(at, 0) ]

\* for i in 0..chunk_index { bytes += chunks_headers[i].size }: the
\* headers of size 0 add nothing and are passed over
bytes_before(headers, chunk_index) ==
    LET taken == SortedSeq({ i \in 0 .. (chunk_index - 1) : headers[i].size # 0 })
        sum[k \in 0 .. Len(taken)] ==
            IF k = 0 THEN 0 ELSE sum[k - 1] + headers[taken[k]].size
    IN  sum[Len(taken)]

get_chunk_without_size_check(file, at) ==
    LET chunk_index == linear_get_chunk_index(at)
        bytes == bytes_before(file.chunks_headers, chunk_index)
    IN  ChunkData_from_bytes(
            SubSeq(file.chunks_data, bytes + 1,
                   bytes + file.chunks_headers[chunk_index].size), at)

\* LinearFile::get_chunk
linear_get_chunk(file, at) ==
    LET chunk_index == linear_get_chunk_index(at)
        chunk_size == file.chunks_headers[chunk_index].size
        bytes == bytes_before(file.chunks_headers, chunk_index)
    IN  IF chunk_size = 0
        THEN [ res |-> "ChunkNotExist", chunk |-> Chunk(at, 0) ]
        ELSE IF bytes + chunk_size > Len(file.chunks_data)
        THEN [ res |-> "Panic", chunk |-> Chunk(at, 0) ]
        ELSE ChunkData_from_bytes(
                 SubSeq(file.chunks_data, bytes + 1, bytes + chunk_size), at)

put_chunk_without_copy_within(file, chunk, at, now) ==
    LET chunk_index == linear_get_chunk_index(at)
        raw == chunk_raw(chunk)
        old_chunk_size == file.chunks_headers[chunk_index].size
        bytes == bytes_before(file.chunks_headers, chunk_index)
        new_total_size == (Len(file.chunks_data) + Len(raw)) - old_chunk_size
        resized ==
            IF Len(raw) > old_chunk_size
            THEN file.chunks_data
                 \o [ i \in 1 .. (new_total_size - Len(file.chunks_data)) |-> 0 ]
            ELSE file.chunks_data
    IN  [ chunks_headers |->
              [ file.chunks_headers EXCEPT
                    ![chunk_index] = [ size |-> Len(raw), timestamp |-> now ] ],
          chunks_data |->
              SubSeq([ i \in 1 .. Len(resized) |->
                         IF i > bytes /\ i <= bytes + Len(raw)
                         THEN raw[i - bytes] ELSE resized[i] ],
                     1, new_total_size) ]

\* LinearFile::put_chunk, at the time now
linear_put_chunk(file, chunk, at, now) ==
    LET chunk_index == linear_get_chunk_index(at)
        raw == chunk_raw(chunk)
        new_chunk_size == Len(raw)
        old_chunk_size == file.chunks_headers[chunk_index].size
        headers == [ file.chunks_headers EXCEPT
                         ![chunk_index] = [ size |-> new_chunk_size,
                                            timestamp |-> now ] ]
        bytes == bytes_before(headers, chunk_index)
        old_total_size == Len(file.chunks_data)
        new_total_size == (old_total_size + new_chunk_size) - old_chunk_size
        \* resize(new_total_size, 0) when the chunk grows
        resized ==
            IF new_chunk_size > old_chunk_size
            THEN file.chunks_data
                 \o [ i \in 1 .. (new_total_size - old_total_size) |-> 0 ]
            ELSE file.chunks_data
        \* copy_within(bytes + old_chunk_size .. old_total_size,
        \*             bytes + new_chunk_size)
        moved ==
            [ i \in 1 .. Len(resized) |->
                IF /\ i > bytes + new_chunk_size
                   /\ i <= (bytes + new_chunk_size)
                           + (old_total_size - (bytes + old_chunk_size))
                THEN resized[(i - new_chunk_size) + old_chunk_size]
                ELSE resized[i] ]
        \* [bytes .. bytes + new_chunk_size].copy_from_slice(&chunk_raw)
        copied ==
            [ i \in 1 .. Len(moved) |->
                IF i > bytes /\ i <= bytes + new_chunk_size
                THEN raw[i - bytes] ELSE moved[i] ]
        \* truncate(new_total_size) when the chunk shrinks
        truncated ==
            IF new_chunk_size < old_chunk_size
            THEN SubSeq(copied, 1, new_total_size)
            ELSE copied
    IN  [ chunks_headers |-> headers, chunks_data |-> truncated ]

\* <LinearChunkFormat as ChunkReader>::read_chunk
linear_read_chunk(folder, at) ==
    LET loaded == linear_load(folder[linear_path(at)])
    IN  IF loaded.res # "Ok"
        THEN [ res |-> loaded.res, chunk |-> Chunk(at, 0), steps |-> loaded.steps ]
        ELSE [ res |-> linear_get_chunk(loaded.file, at).res,
               chunk |-> linear_get_chunk(loaded.file, at).chunk,
               steps |-> loaded.steps ]

\* <LinearChunkFormat as ChunkWriter>::write_chunk at the time now: the
\* result and the folder it leaves
linear_write_chunk(folder, chunk, at, now) ==
    LET path == linear_path(at)
        loaded == linear_load(folder[path])
        file_data == IF loaded.res = "Ok" THEN loaded.file ELSE LinearFile_new
    IN  IF loaded.res \in { "Ok", "ChunkNotExist" }
        THEN [ res |-> "Ok", steps |-> loaded.steps,
               folder |-> [ folder EXCEPT
                   ![path] = linear_save(linear_put_chunk(file_data, chunk, at, now)) ] ]
        ELSE [ res |-> IF loaded.res = "Panic" THEN "Panic" ELSE "IoError",
               steps |-> loaded.steps, folder |-> folder ]

\* the coordinates written and read: the first, the second and the last
\* slot of region (0, 0) and one slot of region (-1, 0)
LinearCoords == { << 0, 0 >>, << 1, 0 >>, << 31, 31 >>, << -1, 0 >> }

MaxLinearWrites == 3

\* an empty region folder and no call made; written[at] lists the
\* versions that write_chunk has stored at a coordinate
InitLinear ==
    /\ CacheAtRest
    /\ probe = NoProbe
    /\ lin = [ op |-> "linear",
               folder |-> [ path \in { linear_path(at) : at \in LinearCoords } |->
                              NoLinearFile ],
               written |-> [ at \in LinearCoords |-> << >> ],
               writes |-> 0,
               last |-> [ call |-> "none", at |-> << 0, 0 >>, res |-> "Ok",
                          chunk |-> Chunk(<< 0, 0 >>, 0), steps |-> << >> ] ]

\* files as a crash, a full disk or another program may leave them: a
\* saved region cut short (within a signature, the header or the stream),
\* with one byte of either signature changed, with another version byte
\* or length, or with a damaged stream
InitDamaged ==
    LET saved == { linear_save(linear_put_chunk(LinearFile_new, Chunk(<< 0, 0 >>, 1),
                                                << 0, 0 >>, 1)) }
        Other(byte) == (byte + 1) % 256
        \* what is left of a file cut after its first n bytes
        Truncated(f, n) ==
            LET in_head == IF n < Len(f.head) THEN n ELSE Len(f.head)
                in_zstd == IF n - in_head < f.zstd.len THEN n - in_head
                           ELSE f.zstd.len
                in_tail == (n - in_head) - in_zstd
            IN  [ exists |-> TRUE,
                  head |-> SubSeq(f.head, 1, in_head),
                  zstd |-> [ f.zstd EXCEPT
                                 !.len = in_zstd,
                                 !.whole = f.zstd.whole /\ in_zstd = f.zstd.len ],
                  tail |-> SubSeq(f.tail, 1, in_tail) ]
        DamagedFiles ==
          saved
        \cup { Truncated(f, n) : f \in saved,
                                 n \in { 0, 4, 7, 8, 12, 20, 31, 32, 40, 44, 51 } }
        \cup { [ f EXCEPT !.head[i] = Other(@) ] : f \in saved, i \in { 1, 8 } }
        \cup { [ f EXCEPT !.tail[i] = Other(@) ] : f \in saved, i \in { 1, 8 } }
        \cup { [ f EXCEPT !.head[1] = Other(@), !.tail[8] = Other(@) ] : f \in saved }
        \cup { [ f EXCEPT !.head[9] = version ] : f \in saved, version \in { 0, 2, 3 } }
        \cup { [ f EXCEPT !.head[24] = Other(@) ] : f \in saved }
        \cup { [ f EXCEPT !.zstd.whole = FALSE ] : f \in saved }
    IN
    \* a region folder that holds one such file
    /\ CacheAtRest
    /\ probe = NoProbe
    /\ \E f \in DamagedFiles :
         lin = [ op |-> "linear",
                 folder |-> [ path \in { linear_path(at) : at \in LinearCoords } |->
                                IF path = linear_path(<< 0, 0 >>) THEN f
                                ELSE NoLinearFile ],
                 written |-> [ at \in LinearCoords |-> << >> ],
                 writes |-> 0,
                 last |-> [ call |-> "none", at |-> << 0, 0 >>, res |-> "Ok",
                            chunk |-> Chunk(<< 0, 0 >>, 0), steps |-> << >> ] ]

\* a call of write_chunk; the clock of the timestamps moves with the calls
LinearWrite ==
    /\ lin.op = "linear"
    /\ lin.writes < MaxLinearWrites
    /\ \E at \in LinearCoords, v \in Versions :
         LET outcome == linear_write_chunk(lin.folder, Chunk(at, v), at, lin.writes + 1)
         IN  lin' = [ op |-> "linear",
                      folder |-> outcome.folder,
                      written |-> IF outcome.res = "Ok"
                                  THEN [ lin.written EXCEPT ![at] = Append(@, v) ]
                                  ELSE lin.written,
                      writes |-> lin.writes + 1,
                      last |-> [ call |-> "write", at |-> at, res |-> outcome.res,
                                 chunk |-> Chunk(at, v), steps |-> outcome.steps ] ]
    /\ UNCHANGED << cache_vars, probe >>

\* a call of read_chunk
LinearRead ==
    /\ lin.op = "linear"
    /\ \E at \in LinearCoords :
         LET outcome == linear_read_chunk(lin.folder, at)
         IN  lin' = [ lin EXCEPT !.last = [ call |-> "read", at |-> at,
                                            res |-> outcome.res,
                                            chunk |-> outcome.chunk,
                                            steps |-> outcome.steps ] ]
    /\ UNCHANGED << cache_vars, probe >>

NextLinear == LinearWrite \/ LinearRead

SpecLinear == InitLinear /\ [][NextLinear]_vars

SpecDamaged == InitDamaged /\ [][NextLinear]_vars

\* ---- C27 ----

\* the first 8 bytes of the file last read, << >> when it has fewer
LeadingSignature == read_exact(lin.folder[linear_path(lin.last.at)], 0, 8)

\* its last 8 bytes, << >> when it has fewer
TrailingSignature ==
    LET f == lin.folder[linear_path(lin.last.at)]
    IN  IF Len(FileBytes(f)) < 8 THEN << >>
        ELSE read_exact(f, Len(FileBytes(f)) - 8, 8)

\* C27: a load goes on to the header and to the zstd stream only when the
\* first 8 and the last 8 bytes of the file are the signature; when either
\* signature is missing or different the load fails with InvalidHeader.
C27_BothSignaturesOrInvalidHeader ==
    /\ lin.op = "linear"
    /\ lin.last.call = "read"
    /\ lin.folder[linear_path(lin.last.at)].exists
    => /\ ( \E i \in 1 .. Len(lin.last.steps) :
                lin.last.steps[i] \in { "header", "zstd" } )
           => LeadingSignature = SIGNATURE /\ TrailingSignature = SIGNATURE
       /\ LeadingSignature # SIGNATURE \/ TrailingSignature # SIGNATURE
           => lin.last.res = "InvalidHeader"

\* ---- C28 ----

EmptySlot ==
    LET loaded == linear_load(lin.folder[linear_path(lin.last.at)])
    IN  /\ loaded.res = "Ok"
        /\ loaded.file.chunks_headers[linear_get_chunk_index(lin.last.at)].size = 0

\* C29: read_chunk returns ChunkNotExist when the region file does not
\* exist and when the file exists but the header of the chunk has size 0.
C29_AbsentIsChunkNotExist ==
    /\ lin.op = "linear" /\ lin.last.call = "read"
    /\ ~lin.folder[linear_path(lin.last.at)].exists \/ EmptySlot
    => lin.last.res = "ChunkNotExist"

\* a coordinate never written has been read from a region file that holds
\* other chunks
C29_Witness ==
    /\ lin.op = "linear" /\ lin.last.call = "read"
    /\ EmptySlot
    /\ lin.last.res = "ChunkNotExist"

(***************************************************************************)
(* C30.  The once-cell of an entry is constructed once.                    *)
(***************************************************************************)
\* task t runs the initialiser of its once-cell
Initialising(t) == task[t].pc = "open"

\* task u, which found its path absent, gets its once-cell in this step
Inserts(u) == task[u].pc = "insert" /\ task'[u].pc = "init"

\* C30 as stated, for the first two calls of a behaviour.  Every call of
\* the overlapping specification works on region (0, 0) and the map starts
\* empty, so when the task u of one call is at its insertion and the task
\* of the other call has its cell already (or has finished with it: its
\* call is retired), both found the path absent; the claim then has u
\* receive the cell the other task made.
C30_AbsentFindersShareCell ==
    [][ \A u \in Tasks, c \in Calls :
          /\ c # u[1]
          /\ u[2] = get_chunk_key(<< 0, 0 >>)
          /\ Inserts(u)
          /\ \/ task[<< c, u[2] >>].pc \notin { "idle", "lookup", "insert" }
             \/ call[c].pc = "retired"
          /\ \A d \in Calls \ { c, u[1] } : call[d].pc = "idle"
          => task'[u].once = << c, u[2] >> ]_vars

\* C30, amended: for every once-cell at most one task at a time runs the
\* initialiser, it holds the permit, and none runs it once the cell is
\* set, so at most one load of an entry succeeds; a task holds the region
\* of a cell only when the cell is set; an insertion never replaces the
\* cell of a path and returns the cell the map then holds, so that tasks
\* that found the path absent share the cell for as long as the sweep has
\* not removed it before the later one inserts.
C30_OneCellOneLoad ==
    [][ /\ \A t \in Tasks :
             Initialising(t)' =>
                 /\ ~cells'[task'[t].once].init
                 /\ cells'[task'[t].once].permit
                 /\ \A u \in Tasks \ { t } :
                        Initialising(u)' => task'[u].once # task'[t].once
        /\ \A id \in Tasks :
             ~cells[id].init /\ cells'[id].init =>
                 \E t \in Tasks : Initialising(t) /\ task[t].once = id
        /\ \A t \in Tasks :
             task'[t].ser # NoTask => cells'[task'[t].ser].init
        /\ \A u \in Tasks :
             Inserts(u) =>
                 /\ task'[u].once = file_locks'[u[2]]
                 /\ file_locks[u[2]] # NoTask =>
                        file_locks'[u[2]] = file_locks[u[2]] ]_vars

\* a task waits at the once-cell another task made while that task runs
\* the initialiser
C30_Witness ==
    \E t, u \in Tasks :
        /\ t # u /\ t[2] = u[2]
        /\ Initialising(t) /\ task[t].once = t
        /\ task[u].pc = "init" /\ task[u].once = t
        /\ file_locks[t[2]] = t

(***************************************************************************)
(* C31.  save_chunks returns after the renames and after one sweep.        *)
(***************************************************************************)
\* C31: once a save_chunks call has started its eviction sweep or has
\* returned, every region task of the call has finished and has renamed its
\* temporary file onto the region path.
C31_ReturnsAfterRenames ==
    \A c \in Calls :
        call[c].kind = "save" /\ call[c].pc \in { "sweep", "returned" } =>
            \A t \in TasksOf(c) : task[t].pc = "done" /\ task[t].res = "ok"

(***************************************************************************)
(* C32.  read_file step by step, with the guards of the map's RwLock: who  *)
(* holds the lock of the map, and where.  Three region tasks, two of one   *)
(* path and one of another; each goes through read_file and then takes the *)
(* lock of its region, a fetch for reading and a save for writing.         *)
(***************************************************************************)
AcquireTasks == { << 1, "r.0.0" >>, << 2, "r.0.0" >>, << 3, "r.1.0" >> }

\* no task has started, the map is empty and its lock is free
InitAcquire ==
    /\ CacheAtRest
    /\ lin = NoLinear
    /\ probe = [ op |-> "acquire",
                 pc |-> [ t \in AcquireTasks |-> "start" ],
                 shared |-> {},            \* holders of file_locks.read()
                 exclusive |-> {},         \* holder of file_locks.write()
                 entry |-> [ p \in { t[2] : t \in AcquireTasks } |-> "none" ],
                 permit |-> {},            \* tasks inside an initialiser
                 readers |-> {},           \* holders of a region's read guard
                 writers |-> {} ]          \* holders of a region's write guard

\* self.file_locks.read().await
MapRead(t) ==
    /\ probe.op = "acquire"
    /\ probe.pc[t] = "start"
    /\ probe.exclusive = {}
    /\ probe' = [ probe EXCEPT !.pc[t] = "get", !.shared = @ \cup { t } ]
    /\ UNCHANGED << cache_vars, lin >>

\* a lookup whose guard lives to the end of the if-let statement, the else
\* branch included (the scope of the temporaries of a scrutinee before the
\* 2024 edition)
MapGetKeepingGuard(t) ==
    /\ probe.op = "acquire"
    /\ probe.pc[t] = "get"
    /\ probe' = IF probe.entry[t[2]] # "none"
                THEN [ probe EXCEPT !.pc[t] = "init", !.shared = @ \ { t } ]
                ELSE [ probe EXCEPT !.pc[t] = "write" ]
    /\ UNCHANGED << cache_vars, lin >>

\* .get(path) under the guard; the guard, a temporary of the scrutinee, is
\* dropped when the once-cell has been cloned or when the else branch is
\* entered (the build is of the 2024 edition: with the older rule the
\* first call on an empty cache would wait for its own guard)
MapGet(t) ==
    /\ probe.op = "acquire"
    /\ probe.pc[t] = "get"
    /\ probe' = [ probe EXCEPT
                    !.pc[t] = IF probe.entry[t[2]] # "none" THEN "init" ELSE "write",
                    !.shared = @ \ { t } ]
    /\ UNCHANGED << cache_vars, lin >>

\* self.file_locks.write().await: granted when no guard of the map is out
MapWrite(t) ==
    /\ probe.op = "acquire"
    /\ probe.pc[t] = "write"
    /\ probe.exclusive = {} /\ probe.shared = {}
    /\ probe' = [ probe EXCEPT !.pc[t] = "or_insert", !.exclusive = { t } ]
    /\ UNCHANGED << cache_vars, lin >>

\* .entry(path).or_insert(..).clone(); the guard is dropped at the end of
\* the statement
MapOrInsert(t) ==
    /\ probe.op = "acquire"
    /\ probe.pc[t] = "or_insert"
    /\ probe' = [ probe EXCEPT
                    !.pc[t] = "init",
                    !.exclusive = {},
                    !.entry[t[2]] = IF @ = "none" THEN "empty" ELSE @ ]
    /\ UNCHANGED << cache_vars, lin >>

\* once_cell.get_or_try_init(..): a set cell gives its region; otherwise
\* the task that gets the permit starts read_from_disk
CellGetOrInit(t) ==
    /\ probe.op = "acquire"
    /\ probe.pc[t] = "init"
    /\ \/ /\ probe.entry[t[2]] = "set"
          /\ probe' = [ probe EXCEPT !.pc[t] = "lock" ]
       \/ /\ probe.entry[t[2]] # "set"
          /\ \A u \in probe.permit : u[2] # t[2]
          /\ probe' = [ probe EXCEPT !.pc[t] = "open", !.permit = @ \cup { t } ]
    /\ UNCHANGED << cache_vars, lin >>

\* read_from_disk returns: the region (the cell is set, read_file returns
\* the clone) or an error (the cell stays empty, read_file returns it)
CellLoaded(t) ==
    /\ probe.op = "acquire"
    /\ probe.pc[t] = "open"
    /\ \/ probe' = [ probe EXCEPT !.pc[t] = "lock", !.permit = @ \ { t },
                                  !.entry[t[2]] = "set" ]
       \/ probe' = [ probe EXCEPT !.pc[t] = "done", !.permit = @ \ { t } ]
    /\ UNCHANGED << cache_vars, lin >>

\* chunk_serializer.read().await of a fetch, .write().await of a save
RegionLock(t) ==
    /\ probe.op = "acquire"
    /\ probe.pc[t] = "lock"
    /\ \A u \in probe.writers : u[2] # t[2]
    /\ \/ probe' = [ probe EXCEPT !.pc[t] = "locked", !.readers = @ \cup { t } ]
       \/ /\ \A u \in probe.readers : u[2] # t[2]
          /\ probe' = [ probe EXCEPT !.pc[t] = "locked", !.writers = @ \cup { t } ]
    /\ UNCHANGED << cache_vars, lin >>

\* the region task returns and drops its guard
RegionUnlock(t) ==
    /\ probe.op = "acquire"
    /\ probe.pc[t] = "locked"
    /\ probe' = [ probe EXCEPT !.pc[t] = "done", !.readers = @ \ { t },
                                !.writers = @ \ { t } ]
    /\ UNCHANGED << cache_vars, lin >>

NextAcquire ==
    \E t \in AcquireTasks :
        \/ MapRead(t)
        \/ MapGet(t)
        \/ MapWrite(t)
        \/ MapOrInsert(t)
        \/ CellGetOrInit(t)
        \/ CellLoaded(t)
        \/ RegionLock(t)
        \/ RegionUnlock(t)

SpecAcquire == InitAcquire /\ [][NextAcquire]_vars

\* C32: a task holds a guard of the map only between taking it and the
\* lookup or the insertion it was taken for: not while it asks for the
\* exclusive lock after the shared one, not while it waits for or runs the
\* initialiser of the once-cell (open, read, parse), not while it waits for
\* or holds the lock of a region.  So the lock of the map is never held
\* across a load, and a task of another path gets it without waiting for
\* the load.
C32_MapLockOnlyForMapOperations ==
    probe.op = "acquire" =>
        /\ \A t \in probe.shared : probe.pc[t] = "get"
        /\ \A t \in probe.exclusive : probe.pc[t] = "or_insert"
        /\ \A t \in AcquireTasks :
              probe.pc[t] \in { "write", "init", "open", "lock", "locked", "done" }
                  => t \notin probe.shared /\ t \notin probe.exclusive
        /\ (\E t \in AcquireTasks : probe.pc[t] = "open")
              => \A u \in probe.shared \cup probe.exclusive :
                     probe.pc[u] \in { "get", "or_insert" }

\* one task is inside the initialiser of its path while the task of another
\* path holds the exclusive lock of the map for its insertion
C32_Witness ==
    /\ probe.op = "acquire"
    /\ \E t, u \in AcquireTasks :
          /\ t[2] # u[2]
          /\ probe.pc[t] = "open"
          /\ probe.pc[u] = "or_insert" /\ probe.exclusive = { u }

(***************************************************************************)
(* C33 to C36.  Anvil add_chunk_data, encode and parse, on region files    *)
(* with their byte length.                                                 *)
(*                                                                         *)
(* The bytes of a region file are its length (size), the two tables and    *)
(* the sectors after them; a file cut short keeps the sectors that are     *)
(* whole.  Every sector of a chunk carries the header of its chunk; the    *)
(* files of the model have location entries that point to the first sector *)
(* of a chunk, to no sector, or past the end.                              *)
(***************************************************************************)
\* what AnvilChunkFile::to_bytes returns, as a file
file_bytes(region, timestamp_table) ==
    LET image == to_bytes_tables(region, timestamp_table)
    IN  [ size |-> (2 * SECTOR_BYTES) + (SECTOR_BYTES * Len(image.chunk_data)),
          location_bytes |-> image.location_bytes,
          timestamp_bytes |-> image.timestamp_bytes,
          chunk_data |-> image.chunk_data ]

\* AnvilChunkFile::from_bytes with its failures.  split_at panics when the
\* input is shorter than the two tables.  For a location entry that is not
\* 0: sector_offset - 2 overflows for the offsets 0 and 1 (a panic of the
\* subtraction, or a wrapped start that is no valid slice index); a slice
\* that ends after the input panics; a slice of no sector is empty and
\* get_u32 panics on it; an unknown compression byte is returned as an
\* error.  The first index that fails decides.
AnvilChunkFile_from_bytes(bytes) ==
    IF bytes.size < 2 * SECTOR_BYTES THEN [ res |-> "panic" ]
    ELSE
    LET chunks_len == bytes.size - (2 * SECTOR_BYTES)
        sector_count(i) == bytes.location_bytes[i] % Pow2(8)
        sector_offset(i) == bytes.location_bytes[i] \div Pow2(8)
        slice(i) == SubSeq(bytes.chunk_data, (sector_offset(i) - 2) + 1,
                           (sector_offset(i) - 2) + sector_count(i))
        outcome(i) ==
            IF sector_offset(i) = 0 /\ sector_count(i) = 0 THEN "none"
            ELSE IF sector_offset(i) < 2 THEN "panic"
            ELSE IF ((sector_offset(i) - 2) * SECTOR_BYTES)
                        + (sector_count(i) * SECTOR_BYTES) > chunks_len
                 THEN "panic"
            ELSE IF sector_count(i) = 0 THEN "panic"
            ELSE IF slice(i)[1].tag \notin KnownCompression
                 THEN "UnknownCompression"
            ELSE "some"
        failed == { i \in 0 .. (CHUNK_COUNT - 1) : outcome(i) \notin { "none", "some" } }
    IN  IF failed # {}
        THEN [ res |-> outcome(CHOOSE i \in failed : \A j \in failed : i <= j) ]
        ELSE [ res |-> "ok",
               chunks_data |->
                   [ i \in { j \in 0 .. (CHUNK_COUNT - 1) : outcome(j) = "some" } |->
                       chunk_from_sectors(slice(i)) ],
               timestamp_table |-> bytes.timestamp_bytes ]

\* a region in memory, before anything is added to it.  The contents of
\* its chunks: none (0), of one and of more sectors, and one whose
\* compressed data, 1 048 000 bytes, take 256 sectors with the 5 header
\* bytes
InitParse ==
    LET ParseCoords == { << 0, 0 >>, << 1, 0 >>, << 31, 31 >> }
        ParseContents == (0 .. MaxVer) \cup { 262 }
    IN
    /\ CacheAtRest
    /\ lin = NoLinear
    /\ \E pick \in [ ParseCoords -> ParseContents ], stamp \in { 0, 1 } :
         probe = [ op |-> "parse", pc |-> "start",
                   before |-> << >>, added |-> << >>,
                   region |-> add_chunk_data(DefaultRegion, ChunkList(pick, ParseCoords)),
                   timestamp_table |-> TimestampTable(stamp),
                   bytes |-> << >>, damage |-> "none",
                   parsed |-> << >>, again |-> << >> ]

\* add_chunk_data of a list of one or two chunks, of one index or of two
AddChunks ==
    /\ probe.op = "parse"
    /\ probe.pc = "start"
    /\ \E first, second \in { << 0, 0 >>, << 1, 0 >> }, v \in Versions, one \in BOOLEAN :
         LET chunks_data == IF one THEN << Chunk(first, v) >>
                            ELSE << Chunk(first, v), Chunk(second, MaxVer + 1 - v) >>
         IN  probe' = [ probe EXCEPT
                          !.pc = "added",
                          !.before = probe.region,
                          !.added = chunks_data,
                          !.region = add_chunk_data(probe.region, chunks_data) ]
    /\ UNCHANGED << cache_vars, lin >>

\* to_bytes of the region
EncodeFile ==
    /\ probe.op = "parse"
    /\ probe.pc = "start"
    /\ probe' = [ probe EXCEPT
                    !.pc = "encoded",
                    !.bytes = file_bytes(probe.region, probe.timestamp_table) ]
    /\ UNCHANGED << cache_vars, lin >>

\* the file is cut short, or the location entry of index 0 or the
\* compression byte of the first chunk is changed
DamageFile ==
    /\ probe.op = "parse"
    /\ probe.pc = "encoded"
    /\ probe.damage = "none"
    /\ \/ \E size \in { 0, SECTOR_BYTES, (2 * SECTOR_BYTES) - 1,
                       probe.bytes.size - 1 } :
             /\ size >= 0 /\ size < probe.bytes.size
             /\ probe' = [ probe EXCEPT
                     !.damage = "cut",
                     !.bytes.size = size,
                     !.bytes.chunk_data =
                         SubSeq(@, 1, IF size < 2 * SECTOR_BYTES THEN 0
                                      ELSE (size - (2 * SECTOR_BYTES)) \div SECTOR_BYTES) ]
       \/ \E location \in { 1, Pow2(8), Pow2(8) + 1, 2 * Pow2(8), (600 * Pow2(8)) + 1 } :
             probe' = [ probe EXCEPT !.damage = "entry",
                                     !.bytes.location_bytes[0] = location ]
       \/ /\ probe.bytes.chunk_data # << >>
          /\ probe' = [ probe EXCEPT !.damage = "tag",
                                     !.bytes.chunk_data[1].tag = UnknownTag ]
    /\ UNCHANGED << cache_vars, lin >>

\* AnvilChunkFile::from_bytes of the file
ParseFile ==
    /\ probe.op = "parse"
    /\ probe.pc = "encoded"
    /\ probe' = [ probe EXCEPT !.pc = "parsed",
                               !.parsed = AnvilChunkFile_from_bytes(probe.bytes) ]
    /\ UNCHANGED << cache_vars, lin >>

\* to_bytes of the region parsed
EncodeAgain ==
    /\ probe.op = "parse"
    /\ probe.pc = "parsed"
    /\ probe.parsed.res = "ok"
    /\ probe' = [ probe EXCEPT
                    !.pc = "again",
                    !.again = file_bytes(probe.parsed.chunks_data,
                                         probe.parsed.timestamp_table) ]
    /\ UNCHANGED << cache_vars, lin >>

NextParse ==
    \/ AddChunks
    \/ EncodeFile
    \/ DamageFile
    \/ ParseFile
    \/ EncodeAgain

SpecParse == InitParse /\ [][NextParse]_vars

\* C33: the parse of an encoded region has a chunk at exactly the indices
\* of the region, each with the length field, the compression tag and the
\* first length - 1 bytes of compressed data of the region's chunk, and the
\* timestamps of the present indices; and encoding what was parsed gives
\* the same bytes again.
C33_ParseInvertsEncode ==
    probe.op = "parse" /\ probe.damage = "none" =>
        /\ probe.pc \in { "parsed", "again" } =>
              /\ probe.parsed.res = "ok"
              /\ DOMAIN probe.parsed.chunks_data = DOMAIN probe.region
              /\ \A i \in DOMAIN probe.region :
                    LET was == probe.region[i]
                        is == probe.parsed.chunks_data[i]
                    IN  /\ is.length = was.length
                        /\ is.compression = was.compression
                        /\ is.compressed_data.len >= was.length - 1
                        /\ is.compressed_data.xz = was.compressed_data.xz
                        /\ is.compressed_data.sub = was.compressed_data.sub
                        /\ probe.parsed.timestamp_table[i] = probe.timestamp_table[i]
        /\ probe.pc = "again" => probe.again = probe.bytes

\* the parse of C33 on the regions that have no chunk of 256 sectors
C33_ParseInvertsEncodeOfSmallChunks ==
    (\A i \in DOMAIN probe.region : SectorCount(probe.region[i]) < Pow2(8))
        => C33_ParseInvertsEncode

\* C34: in an encoded region the location entry of every present chunk has
\* the chunk's sector count in its low 8 bits and the chunk's sector
\* offset, 2 plus the sectors of the present chunks before it, in its high
\* 24 bits.
C34_LocationEntryFields ==
    probe.op = "parse" /\ probe.pc = "encoded" /\ probe.damage = "none" =>
        \A i \in DOMAIN probe.region :
            /\ probe.bytes.location_bytes[i] % Pow2(8) = SectorCount(probe.region[i])
            /\ probe.bytes.location_bytes[i] \div Pow2(8)
                   = 2 + SectorsBefore(probe.region, i)

\* C35: the parse of any file returns a region or an error and does not
\* panic; a file shorter than the two tables gives InvalidHeader.
C35_ParseIsTotal ==
    probe.op = "parse" /\ probe.pc = "parsed" =>
        /\ probe.parsed.res # "panic"
        /\ probe.bytes.size < 2 * SECTOR_BYTES => probe.parsed.res = "InvalidHeader"

\* C36: add_chunk_data of a list puts at the index of every chunk of the
\* list the record encoded from the last chunk of the list with that index,
\* leaves every other slot as it was, present or absent, and leaves the
\* timestamp table as it was.
C36_AddOverwritesByIndex ==
    [][ probe.op = "parse" /\ probe.pc = "start" /\ probe'.pc = "added" =>
          LET chunks_data == probe'.added
              index(k) == get_chunk_index(chunks_data[k].position)
              last(i) == CHOOSE k \in DOMAIN chunks_data :
                             /\ index(k) = i
                             /\ \A j \in DOMAIN chunks_data : index(j) = i => j <= k
              supplied == { index(k) : k \in DOMAIN chunks_data }
          IN  /\ DOMAIN probe'.region = (DOMAIN probe.region) \cup supplied
              /\ \A i \in supplied :
                    probe'.region[i] = from_chunk(chunks_data[last(i)])
              /\ \A i \in (DOMAIN probe.region) \ supplied :
                    probe'.region[i] = probe.region[i]
              /\ probe'.timestamp_table = probe.timestamp_table ]_vars

\* two chunks of one index with different contents have been added to a
\* region that had another chunk at that index and a chunk at another index
C36_Witness ==
    /\ probe.op = "parse" /\ probe.pc = "added"
    /\ Len(probe.added) = 2
    /\ get_chunk_index(probe.added[1].position) = get_chunk_index(probe.added[2].position)
    /\ probe.added[1].subchunks # probe.added[2].subchunks
    /\ get_chunk_index(probe.added[1].position) \in DOMAIN probe.before
    /\ \E i \in DOMAIN probe.before : i # get_chunk_index(probe.added[1].position)
    /\ \E i \in 0 .. (CHUNK_COUNT - 1) :
          i \notin DOMAIN probe.region /\ probe.timestamp_table[i] # 0

\* ---- C37 ----

\* the LinearFile of a region of the folder: the one saved there, or a new
\* file where there is none
LinearFileAt(folder, path) ==
    IF folder[path].exists THEN folder[path].zstd.content ELSE LinearFile_new

\* the bytes of chunks_data that the headers give to an index
LinearPayload(file, i) ==
    SubSeq(file.chunks_data,
           bytes_before(file.chunks_headers, i) + 1,
           bytes_before(file.chunks_headers, i) + file.chunks_headers[i].size)

\* C37: after every put_chunk of a sequence that starts from an empty
\* LinearFile, chunks_data is as long as the sizes of all headers together
\* and the bytes from the sum of the sizes below an index are the payload
\* put there; the put leaves the header and the payload bytes of every
\* other index as they were, whether the new payload is larger than,
\* smaller than or as large as the old one.
C37_PutChunkKeepsOtherPayloads ==
    [][ lin.op = "linear" /\ lin'.writes = lin.writes + 1 /\ lin'.last.res = "Ok" =>
          LET path == linear_path(lin'.last.at)
              chunk_index == linear_get_chunk_index(lin'.last.at)
              old == LinearFileAt(lin.folder, path)
              new == LinearFileAt(lin'.folder, path)
              loaded == linear_load(lin'.folder[path])
          IN  /\ loaded.res = "Ok" /\ loaded.file = new
              /\ Len(new.chunks_data) = bytes_before(new.chunks_headers, CHUNK_COUNT)
              /\ LinearPayload(new, chunk_index) = chunk_raw(lin'.last.chunk)
              /\ new.chunks_headers =
                    [ old.chunks_headers EXCEPT
                          ![chunk_index] = new.chunks_headers[chunk_index] ]
              /\ \A at \in LinearCoords :
                    linear_path(at) = path /\ linear_get_chunk_index(at) # chunk_index =>
                        LinearPayload(new, linear_get_chunk_index(at))
                            = LinearPayload(old, linear_get_chunk_index(at)) ]_vars

\* a chunk has been put, larger or smaller than the one it replaces, at an
\* index below that of another chunk of the file
C37_Witness ==
    /\ lin.op = "linear"
    /\ lin.last.call = "write" /\ lin.last.res = "Ok"
    /\ Len(lin.written[lin.last.at]) >= 2
    /\ lin.written[lin.last.at][1] # lin.written[lin.last.at][2]
    /\ \E at \in LinearCoords :
          /\ linear_path(at) = linear_path(lin.last.at)
          /\ linear_get_chunk_index(at) > linear_get_chunk_index(lin.last.at)
          /\ lin.written[at] # << >>

(***************************************************************************)
(* C38.  The grouping loop of fetch_chunks and save_chunks, one input at a *)
(* time, and the region tasks made from the map it builds.                 *)
(***************************************************************************)
\* a call with up to three inputs, coordinates of a fetch or pairs of a
\* save, in any order and with repetitions; nothing is grouped yet
InitGroup ==
    LET Inputs(kind) == IF kind = "fetch" THEN Coords
                        ELSE { Pair(at, v) : at \in Coords, v \in Versions }
    IN
    /\ CacheAtRest
    /\ lin = NoLinear
    /\ \E kind \in { "fetch", "save" }, n \in 1 .. 3 :
         \E req \in [ 1 .. n -> Inputs(kind) ] :
            probe = [ op |-> "group", kind |-> kind, req |-> req, i |-> 1,
                      regions_chunks |-> [ key \in Paths |-> << >> ],
                      ran |-> << >>,
                      regions |-> [ key \in Paths |-> DefaultRegion ] ]

\* a loop that puts an input before the inputs its group already has
BucketNextPrepending ==
    /\ probe.op = "group"
    /\ probe.i <= Len(probe.req)
    /\ LET item == probe.req[probe.i]
           at == IF probe.kind = "save" THEN item[1] ELSE item
           el == IF probe.kind = "save" THEN item[2] ELSE item
       IN  probe' = [ probe EXCEPT
                        !.i = @ + 1,
                        !.regions_chunks[get_chunk_key(at)] = << el >> \o @ ]
    /\ UNCHANGED << cache_vars, lin >>

\* one turn of the loop: the key of the input's coordinate, and a push to
\* the vector of that key (a new vector when the key is vacant)
BucketNext ==
    /\ probe.op = "group"
    /\ probe.i <= Len(probe.req)
    /\ LET item == probe.req[probe.i]
           at == IF probe.kind = "save" THEN item[1] ELSE item
           el == IF probe.kind = "save" THEN item[2] ELSE item
       IN  probe' = [ probe EXCEPT
                        !.i = @ + 1,
                        !.regions_chunks[get_chunk_key(at)] = Append(@, el) ]
    /\ UNCHANGED << cache_vars, lin >>

\* the task of one entry of the map, run when the loop has ended: a save
\* updates the region of its key with its chunks; ran lists the keys whose
\* task has run
RunTask(key) ==
    /\ probe.op = "group"
    /\ probe.i > Len(probe.req)
    /\ probe.regions_chunks[key] # << >>
    /\ \A k \in DOMAIN probe.ran : probe.ran[k] # key
    /\ probe' = [ probe EXCEPT
                    !.ran = Append(@, key),
                    !.regions[key] =
                        IF probe.kind = "save"
                        THEN add_chunk_data(@, probe.regions_chunks[key])
                        ELSE @ ]
    /\ UNCHANGED << cache_vars, lin >>

NextGroup ==
    \/ BucketNext
    \/ \E key \in Paths : RunTask(key)

SpecGroup == InitGroup /\ [][NextGroup]_vars

\* the coordinate of input k of the call grouped
InputAt(k) ==
    IF probe.kind = "save" THEN probe.req[k][1] ELSE probe.req[k]

\* C38: when the loop has ended, the group of a key holds the inputs whose
\* coordinate has that key, all of them, once each and in input order (so
\* every input is in exactly one group and the groups of two keys share no
\* input); one task runs for every key that an input has and none for
\* another key; and when the tasks of a save have run, the region of every
\* input coordinate holds at its index the chunk of the last pair of the
\* call with that coordinate.
C38_GroupsPartitionInputs ==
    probe.op = "group" /\ probe.i > Len(probe.req) =>
        /\ \A key \in Paths :
              LET positions == SortedSeq({ k \in DOMAIN probe.req :
                                             get_chunk_key(InputAt(k)) = key })
              IN  /\ Len(probe.regions_chunks[key]) = Len(positions)
                  /\ \A j \in DOMAIN positions :
                        probe.regions_chunks[key][j] =
                            IF probe.kind = "save" THEN probe.req[positions[j]][2]
                            ELSE probe.req[positions[j]]
                  /\ probe.regions_chunks[key]
                        = SelectKey(probe.req, key, probe.kind)
        /\ \A k \in DOMAIN probe.ran :
              /\ \E j \in DOMAIN probe.req : get_chunk_key(InputAt(j)) = probe.ran[k]
              /\ \A j \in DOMAIN probe.ran : probe.ran[j] = probe.ran[k] => j = k
        /\ probe.kind = "save" =>
              \A k \in DOMAIN probe.req :
                  /\ \E j \in DOMAIN probe.ran :
                        probe.ran[j] = get_chunk_key(InputAt(k))
                  /\ \A j \in DOMAIN probe.req : j > k => InputAt(j) # InputAt(k)
                  => probe.regions[get_chunk_key(InputAt(k))]
                                  [get_chunk_index(InputAt(k))]
                         = from_chunk(probe.req[k][2])

\* all tasks of a save have run whose inputs have one coordinate twice,
\* with different chunks, and a coordinate of another region between them
C38_Witness ==
    /\ probe.op = "group" /\ probe.kind = "save"
    /\ Len(probe.req) = 3
    /\ probe.req[1][1] = probe.req[3][1]
    /\ probe.req[1][2] # probe.req[3][2]
    /\ get_chunk_key(probe.req[2][1]) # get_chunk_key(probe.req[1][1])
    /\ Len(probe.ran) = 2

(***************************************************************************)
(* C39.  The errors read_file returns.                                     *)
(***************************************************************************)
\* C39: no region task of a fetch or a save gets ChunkNotExist from
\* read_file, and none reaches unreachable!(): where the region file is
\* missing the load gives the default region.
C39_NoChunkNotExistFromReadFile ==
    /\ [](\A t \in Tasks :
            task[t].err # "ChunkNotExist" /\ task[t].res # "unreachable")
    /\ [][ \A t \in Tasks :
             task[t].pc = "open" /\ task'[t].pc # "open" /\ files[t[2]].st = "none"
             /\ faults' = faults /\ task'[t].res # "dropped"
                 => /\ task'[t].pc = "init"
                    /\ cells'[task[t].once].init
                    /\ cells'[task[t].once].value = DefaultRegion ]_vars

\* a load has failed with an I/O error and, in another call, the load of a
\* missing file has given the default region
C39_Witness ==
    /\ \E t \in Tasks : task[t].err = "IoError"
    /\ \E t \in Tasks :
          /\ files[t[2]].st = "none"
          /\ task[t].ser # NoTask
          /\ cells[task[t].ser].init
          /\ cells[task[t].ser].value = DefaultRegion

(***************************************************************************)
(* C40.  The once-cell of a path after a failed load.                      *)
(***************************************************************************)
\* the region file of a path can be read: it is missing, which gives the
\* default region, or it parses
Readable(p) == files[p].st = "none" \/ read_ok(files[p])

\* C40: a load that fails leaves the entry of the path in the map and its
\* cell uninitialised, with no region in it; a task that then finds the
\* uninitialised cell runs the load again, and that load initialises the
\* cell when the file is readable and no I/O error occurs; the sweep (or
\* any other step) removes no entry whose cell is uninitialised.
C40_FailedLoadLeavesCellEmpty ==
    [][ /\ \A t \in Tasks :
              task[t].pc = "open" /\ task'[t].res = "load_err" =>
                  /\ file_locks'[t[2]] = task[t].once
                  /\ ~cells'[task[t].once].init
                  /\ cells'[task[t].once].value = FreshCell.value
                  /\ ~cells'[task[t].once].permit
        /\ \A t \in Tasks :
              /\ task[t].pc = "init" /\ task'[t].pc # "init"
              /\ task'[t].res # "dropped"
              /\ ~cells[task[t].once].init
              => task'[t].pc = "open"
        /\ \A t \in Tasks :
              /\ task[t].pc = "open" /\ task'[t].pc # "open"
              /\ task'[t].res # "dropped"
              /\ Readable(t[2]) /\ faults' = faults
              => cells'[task[t].once].init
        /\ \A p \in Paths :
              file_locks[p] # NoTask /\ ~cells[file_locks[p]].init
                  => file_locks'[p] = file_locks[p] ]_vars

\* a task of a later call has initialised the cell that an earlier call,
\* whose load failed and which has returned, had put in the map
C40_Witness ==
    \E t \in Tasks :
        /\ task[t].ser # NoTask
        /\ task[t].ser[1] < t[1]
        /\ file_locks[t[2]] = task[t].ser
        /\ cells[task[t].ser].init
        /\ faults >= 1
        /\ \E c \in Calls : c < t[1] /\ c >= task[t].ser[1] /\ call[c].pc = "retired"

=============================================================================
